---------------------------- MODULE Spec2Model ----------------------------
(***************************************************************************)
(* A model of elasticdash_test: the async test runner (runner.py), the     *)
(* trace model and the ambient trace context (trace.py), the registry      *)
(* (registry.py), the HTTP interceptor (interceptors/ai_interceptor.py),   *)
(* the live-UI event server (browser_ui.py) and the `test` command         *)
(* (cli.py).                                                               *)
(*                                                                         *)
(* Spec models one call of run_file on one test file.  User code (hooks,   *)
(* test bodies, tasks they start) is the environment: every call of a hook *)
(* or body ends with a nondeterministic outcome, and while it runs it may  *)
(* record into traces, through ctx.trace, through get_current_trace(), or  *)
(* through a reference it kept.  User code is taken not to call            *)
(* set_current_trace itself: only the runner writes the ambient slot.      *)
(*                                                                         *)
(* SpecInterceptor models install/uninstall of the interceptor and the     *)
(* send path of the three patched HTTP clients.                            *)
(*                                                                         *)
(* SpecHandle models one TraceHandle as Python objects (lists with         *)
(* identity), its record methods and its getters.  SpecMatch and SpecJudge *)
(* model the assertions of matchers.py on such a trace: the count          *)
(* assertions, and the positional and judge-scored ones.  SpecRegistry     *)
(* models the registry operations for two files.  SpecRecord models the    *)
(* record methods in every way of calling them (an entry value, named      *)
(* fields).                                                                *)
(*                                                                         *)
(* SpecStream models the event server: the run sends events while          *)
(* browsers connect to the event stream, are replayed the history and are  *)
(* streamed what follows; every await of the handler is a point where the  *)
(* sender may run.  SpecCli models one `test` run over two files: what     *)
(* run_file gives back is an input, and the events sent are the state.     *)
(* SpecCliFair is SpecCli driven to its end, as asyncio.run drives it.     *)
(*                                                                         *)
(* SpecObserved models the judge-scored assertions in a process where the  *)
(* interceptor may be installed: the request to the judge goes through the *)
(* patched client.  SpecFiles models run_files over two files, and         *)
(* SpecRepeat models run_file called again on the same file with the       *)
(* registry the earlier call left.                                         *)
(***************************************************************************)
EXTENDS Integers, Sequences, FiniteSets, TLC

\* ------------------------------------------------------------- bounds
MaxDecl == 4       \* functions (tests and hooks together) a file declares, in Spec
MaxTraceDecl == 3  \* the same, in SpecTrace
MaxRecords == 1    \* record_* calls in one run
MaxTraces == 1     \* traces activated in SpecInterceptor
MaxDepth == 3      \* nested calls one send may make before the interpreter gives up
MaxSteps == 3      \* entries recorded into the TraceHandle of SpecHandle
MaxMatchSteps == 2 \* entries recorded into the TraceHandle of SpecMatch
MaxReg == 3        \* functions registered at one time, in SpecRegistry
MaxMut == 2        \* changes user code makes to one list it got from a getter
MaxConns == 2      \* connections browsers open to /events
MaxEvents == 3     \* events sent in SpecStream
MaxRuns == 2        \* run_file calls on the one file in one process, in SpecRepeat
MaxRepeatDecl == 2  \* functions the file declares, in SpecRepeat
MaxCliTests == 2   \* tests of one file, in SpecCli

\* ---------------------------------------------------------- vocabulary
None == "None"
NoTrace == 0                                    \* get_current_trace() is None
Outcomes == {"ok", "AssertionError", "Exception"}  \* how a call of user code ends
Kinds == {"llm", "tool", "custom"}
UserPhases == {"before_all", "before_each", "body", "after_each", "after_all"}
TestPhases == {"before_each", "body", "after_each"}

\* Optional values: <<>> is None, <<v>> is the value v
Nothing == <<>>
Some(v) == <<v>>

VARIABLES
    decl,       \* what the file declares: numbers of tests and of hooks per kind
    REGISTRY,   \* registry._REGISTRY[file]: None or the file's entry
    pc,         \* where run_file is: "start", a phase whose hook runs, "returned", "raised"
    hook,       \* index of the hook running in the current phase
    test,       \* index (in _tests_list) of the test being run; 0 outside the loop
    status,     \* local `status` of the loop body
    err,        \* local `err` of the loop body
    result,     \* the FileResult being built
    traces,     \* every TraceHandle created, by identity (its index)
    current,    \* _current_trace in the runner's context: a trace id or NoTrace
    tasks,      \* the contexts of the tasks user code started, each with the test that started it
    nrec,       \* number of record_* calls so far
    log,        \* history: every _run_hooks invocation and every hook/body call
    \* ---- interceptor (SpecInterceptor)
    installed,  \* ai_interceptor._installed
    saved,      \* _original_async_send, _original_sync_send, _original_requests_send
    slot,       \* the send attribute of each client class
    hasRequests,\* whether `import requests` succeeds in this process
    ops,        \* history: how many of the last install/uninstall calls match Scenario
    lastSend,   \* history: what the step just taken did, when it was a send
    \* ---- one TraceHandle as objects (SpecHandle)
    heap,       \* the list objects, by identity (index): the contents of each
    handle,     \* the TraceHandle: which list object each attribute refers to
    snaps,      \* the list objects user code got from getters and still holds
    nmut,       \* number of changes user code made to the list it holds
    order,      \* history: the entries recorded, in recording order
    verdict,    \* history: the assertion made in the step just taken, and how it ended
    lastReg,    \* history: the registry operation of the step just taken
    \* ---- how run_file calls user code
    ctx,        \* local `ctx` of the loop body: Nothing before the first test
    callLog,    \* history: every call of a hook or body, with the arguments passed
    params,     \* the functions of the file that declare a positional parameter
    lastRec,    \* history: the record_* call of the step just taken, as it was made
    \* ---- the live UI (SpecStream, SpecCli)
    history,    \* BrowserUIServer.history
    queues,     \* BrowserUIServer.queues: the connections whose queue is in the list
    conn,       \* each connection: where its _sse_handler is, its queue, what it wrote
    cli,        \* where test_cmd's _run is, and its locals
    \* ---- several run_file calls in one process (SpecFiles, SpecRepeat)
    batch,      \* where run_files is, and its locals
    past        \* history: the FileResults earlier run_file calls of the file returned

runnerVars == <<decl, REGISTRY, pc, hook, test, status, err, result, traces,
                current, tasks, nrec, log>>
icVars == <<installed, saved, slot, hasRequests, ops, lastSend>>
libVars == <<heap, handle, snaps, nmut, order, verdict, lastReg>>
uiVars == <<history, queues, conn, cli, batch, past>>
extVars == <<ctx, callLog, params, lastRec, history, queues, conn, cli, batch, past>>
vars == <<decl, REGISTRY, pc, hook, test, status, err, result, traces,
          current, tasks, nrec, log, installed, saved, slot, hasRequests, ops,
          lastSend, heap, handle, snaps, nmut, order,
          verdict, lastReg, ctx, callLog, params, lastRec, history, queues, conn, cli,
          batch, past>>


\* ================================================================ trace.py
\* TraceHandle.__init__: three empty sequences
TraceHandle == [llm |-> <<>>, tool |-> <<>>, custom |-> <<>>]

\* (variant: the new LLM step is put in front of the earlier ones)
record_llm_step_Prepend(trace, step) == [trace EXCEPT !.llm = <<step>> \o @]

\* TraceHandle.record_llm_step / record_tool_call / record_custom_step
record_llm_step(trace, step) == [trace EXCEPT !.llm = Append(@, step)]
record_tool_call(trace, call) == [trace EXCEPT !.tool = Append(@, call)]
record_custom_step(trace, step) == [trace EXCEPT !.custom = Append(@, step)]

\* the record_* method user code calls for an entry of kind k
RecordKind(trace, k, entry) ==
    CASE k = "llm" -> record_llm_step(trace, entry)
      [] k = "tool" -> record_tool_call(trace, entry)
      [] OTHER -> record_custom_step(trace, entry)

\* (variant: the runner's set_current_trace has no effect)
set_current_trace_Ignored(trace) == NoTrace

\* set_current_trace(trace): the new value of _current_trace in the caller's context
set_current_trace(trace) == trace

\* get_current_trace() in a context whose _current_trace is c
get_current_trace(c) == c

\* ============================================================= registry.py
TheFile == "flow.ai_test.py"

\* _ensure_registry: the entry of a file, created empty on first use
EmptyEntry ==
    [tests |-> <<>>, before_all_hooks |-> <<>>, after_all_hooks |-> <<>>,
     before_each_hooks |-> <<>>, after_each_hooks |-> <<>>]

_ensure_registry(R, f) == IF f \in DOMAIN R THEN R ELSE (f :> EmptyEntry) @@ R

\* appending n functions (named 1..n, in declaration order) to one list of the entry
RECURSIVE Register(_, _, _, _)
Register(R, f, key, n) ==
    IF n = 0 THEN R
    ELSE LET R1 == Register(R, f, key, n - 1)
             R2 == _ensure_registry(R1, f)
         IN  [R2 EXCEPT ![f][key] = Append(@, Len(@) + 1)]

\* exec_module of the file: every decorator of the file runs, in the file's order
RegisterFile(R, f, d) ==
    Register(Register(Register(Register(Register(R,
        f, "before_all_hooks", d.before_all),
        f, "after_all_hooks", d.after_all),
        f, "before_each_hooks", d.before_each),
        f, "after_each_hooks", d.after_each),
        f, "tests", d.tests)

\* =============================================================== runner.py
\* mutant: the hooks of a list are taken last-registered first
_hook_list_Reversed(reg, key) == [i \in 1..Len(reg[key]) |-> reg[key][Len(reg[key]) + 1 - i]]

\* _hook_list(reg, key)
_hook_list(reg, key) == reg[key]

\* _tests_list(reg)
_tests_list(reg) == reg.tests

\* TestResult(name, status, duration, error, trace); the duration is not modelled
TestResult(name, st, e, tr) == [name |-> name, status |-> st, error |-> e, trace |-> tr]

\* FileResult(file)
FileResult == [tests |-> <<>>, before_all_error |-> None, after_all_error |-> None]

\* mutant: the except clauses in the other order, so that the broad one wins
StatusOf_BroadFirst(outcome) == IF outcome = "ok" THEN "passed" ELSE "error"

\* the status the except clauses of run_file give an outcome of before-each/body
StatusOf(outcome) ==
    CASE outcome = "ok" -> "passed"
      [] outcome = "AssertionError" -> "failed"
      [] OTHER -> "error"

\* mutant: set_current_trace(None) is missing
Deactivate_Never(cur, afterEachRaised) == cur

\* mutant: set_current_trace(None) follows the after-each hooks without a finally
Deactivate_NotOnRaise(cur, afterEachRaised) ==
    IF afterEachRaised THEN cur ELSE set_current_trace(NoTrace)

\* the inner finally of run_file: set_current_trace(None), whether or not
\* after-each raised
Deactivate(cur, afterEachRaised) == set_current_trace(NoTrace)

\* The runner's own state, as one record, so that the steps run_file takes
\* between two calls of user code compose.
Runner ==
    [pc |-> pc, hook |-> hook, test |-> test, status |-> status, err |-> err,
     result |-> result, traces |-> traces, current |-> current, log |-> log,
     ctx |-> ctx, calls |-> callLog]

Reg == REGISTRY[TheFile]

\* AITestContext(trace=trace)
AITestContext(trace) == [trace |-> trace]

\* the list of the registry entry a phase takes its functions from
KeyOf(phase) ==
    CASE phase = "before_all" -> "before_all_hooks"
      [] phase = "before_each" -> "before_each_hooks"
      [] phase = "after_each" -> "after_each_hooks"
      [] phase = "after_all" -> "after_all_hooks"
      [] OTHER -> "tests"

\* the function run_file calls as the h-th of a phase of test t: a function is
\* known by the list it was registered in and its name there
FnOf(phase, t, h) ==
    IF phase = "body" THEN <<"tests", _tests_list(Reg)[t]>>
    ELSE <<KeyOf(phase), _hook_list(Reg, KeyOf(phase))[h]>>

\* run_file 53, 66, 67, 76, 91: the ctx argument of _run_hooks and _maybe_await;
\* the before-all and after-all calls pass none, so that it is None
CtxArg(r, phase) == IF phase \in TestPhases THEN r.ctx ELSE Nothing

\* _accepts_ctx 112-113: func.__code__.co_argcount >= 1
_accepts_ctx(func) == func \in params

\* _maybe_await 102-106: the arguments func is called with
_maybe_await(func, c) ==
    IF c # Nothing
    THEN IF _accepts_ctx(func) THEN <<c[1]>> ELSE <<>>
    ELSE <<>>

\* a Python call: a function that declares a positional parameter (without a
\* default) raises TypeError when called with no argument, and so does one that
\* declares none when called with one; otherwise its code runs and ends as it may
Ends(call) ==
    IF (call.fn \in params) # (Len(call.args) = 1) THEN {"TypeError"} ELSE Outcomes

\* _run_hooks 97-99 and _maybe_await 102-109: h = 0 is the call of _run_hooks for
\* the phase, h >= 1 the call of its h-th function
Logged(r, phase, t, h) ==
    [r EXCEPT !.log = Append(@, <<phase, t, h>>),
              !.calls = IF h = 0 THEN @
                        ELSE Append(@, [phase |-> phase, test |-> t,
                                        fn |-> FnOf(phase, t, h),
                                        args |-> _maybe_await(FnOf(phase, t, h),
                                                              CtxArg(r, phase))])]

\* the call of user code that is running
Running == callLog[Len(callLog)]

\* run_file 90-94: _run_hooks(after_all_hooks); with no hook it returns at once
EnterAfterAll(r) ==
    LET r1 == Logged([r EXCEPT !.test = 0], "after_all", 0, 0)
    IN  IF Len(_hook_list(Reg, "after_all_hooks")) = 0
        THEN [r1 EXCEPT !.pc = "returned", !.hook = 0]
        ELSE Logged([r1 EXCEPT !.pc = "after_all", !.hook = 1], "after_all", 0, 1)

\* (variant: every test of the file is handed the first test's TraceHandle)
EnterTest_SharedTrace(r, i) ==
    IF i > Len(_tests_list(Reg)) THEN EnterAfterAll(r)
    ELSE LET r1 == [r EXCEPT !.test = i,
                             !.traces = IF Len(@) = 0 THEN <<TraceHandle>> ELSE @,
                             !.ctx = Some(AITestContext(1)),
                             !.current = set_current_trace(1),
                             !.status = "passed",
                             !.err = None]
             r2 == Logged(r1, "before_each", i, 0)
         IN  IF Len(_hook_list(Reg, "before_each_hooks")) = 0
             THEN Logged([r2 EXCEPT !.pc = "body", !.hook = 1], "body", i, 1)
             ELSE Logged([r2 EXCEPT !.pc = "before_each", !.hook = 1], "before_each", i, 1)

\* run_file 58-67: the head of the loop for test i, up to the first call of user code
EnterTest(r, i) ==
    IF i > Len(_tests_list(Reg)) THEN EnterAfterAll(r)
    ELSE LET id == Len(r.traces) + 1
             r1 == [r EXCEPT !.test = i,
                             !.traces = Append(@, TraceHandle),
                             !.ctx = Some(AITestContext(id)),
                             !.current = set_current_trace(id),
                             !.status = "passed",
                             !.err = None]
             r2 == Logged(r1, "before_each", i, 0)
         IN  IF Len(_hook_list(Reg, "before_each_hooks")) = 0
             THEN Logged([r2 EXCEPT !.pc = "body", !.hook = 1], "body", i, 1)
             ELSE Logged([r2 EXCEPT !.pc = "before_each", !.hook = 1], "before_each", i, 1)

\* run_file 77-88: the inner finally, then either the after-each error leaves
\* run_file or the TestResult is appended and the loop goes on
\* (variant: the TestResult is built without the error the test ended with)
FinishTest_NoError(r, afterEachOutcome) ==
    LET raised == afterEachOutcome # "ok"
        r1 == [r EXCEPT !.current = Deactivate(@, raised)]
    IN  IF raised
        THEN [r1 EXCEPT !.pc = "raised", !.hook = 0]
        ELSE EnterTest(
                 [r1 EXCEPT !.result.tests =
                      Append(@, TestResult(_tests_list(Reg)[r.test], r.status, None,
                                           Len(r.traces)))],
                 r.test + 1)

FinishTest(r, afterEachOutcome) ==
    LET raised == afterEachOutcome # "ok"
        r1 == [r EXCEPT !.current = Deactivate(@, raised)]
    IN  IF raised
        THEN [r1 EXCEPT !.pc = "raised", !.hook = 0]
        ELSE EnterTest(
                 [r1 EXCEPT !.result.tests =
                      Append(@, TestResult(_tests_list(Reg)[r.test], r.status, r.err,
                                           Len(r.traces)))],
                 r.test + 1)

\* (variant: the after-each hooks of a test are not run)
EnterAfterEach_Skipped(r, outcome) ==
    FinishTest([r EXCEPT !.status = StatusOf(outcome),
                         !.err = IF outcome = "ok" THEN None ELSE outcome], "ok")

\* run_file 68-76: the except clauses, then the outer finally calls
\* _run_hooks(after_each_hooks)
EnterAfterEach(r, outcome) ==
    LET r1 == [r EXCEPT !.status = StatusOf(outcome),
                        !.err = IF outcome = "ok" THEN None ELSE outcome]
        r2 == Logged(r1, "after_each", r.test, 0)
    IN  IF Len(_hook_list(Reg, "after_each_hooks")) = 0
        THEN FinishTest(r2, "ok")
        ELSE Logged([r2 EXCEPT !.pc = "after_each", !.hook = 1], "after_each", r.test, 1)

\* _run_hooks 97-99: the next hook of the running phase is called
NextHook(r) == Logged([r EXCEPT !.hook = @ + 1], r.pc, r.test, r.hook + 1)

SetRunner(r) ==
    /\ pc' = r.pc
    /\ hook' = r.hook
    /\ test' = r.test
    /\ status' = r.status
    /\ err' = r.err
    /\ result' = r.result
    /\ traces' = r.traces
    /\ current' = r.current
    /\ log' = r.log
    /\ ctx' = r.ctx
    /\ callLog' = r.calls


\* ------------------------------------------------------ run_file, step by step
\* run_file 45, _import_file 116-122: the module is loaded; loading it runs its
\* decorators, which register its tests and hooks
ImportFile ==
    /\ pc = "start"
    /\ \E outcome \in {"ok", "ImportError"} :
          IF outcome = "ok"
          THEN /\ REGISTRY' = RegisterFile(REGISTRY, TheFile, decl)
               /\ pc' = "loaded"
          ELSE /\ pc' = "raised"
               /\ UNCHANGED REGISTRY
    /\ UNCHANGED <<decl, hook, test, status, err, result, traces, current, tasks,
                   nrec, log>>
    /\ UNCHANGED icVars
    /\ UNCHANGED libVars
    /\ UNCHANGED <<ctx, callLog, params, lastRec>>
    /\ UNCHANGED uiVars

\* run_file 46-53: get_registry(file); None ends the run with no tests, otherwise
\* _run_hooks(before_all_hooks) starts
BeginFile ==
    /\ pc = "loaded"
    /\ IF TheFile \notin DOMAIN REGISTRY
       THEN SetRunner([Runner EXCEPT !.pc = "returned", !.result = FileResult])
       ELSE LET r == Logged([Runner EXCEPT !.result = FileResult], "before_all", 0, 0)
            IN  IF Len(_hook_list(Reg, "before_all_hooks")) = 0
                THEN SetRunner(EnterTest(r, 1))
                ELSE SetRunner(Logged([r EXCEPT !.pc = "before_all", !.hook = 1],
                                      "before_all", 0, 1))
    /\ UNCHANGED <<decl, REGISTRY, tasks, nrec>>
    /\ UNCHANGED icVars
    /\ UNCHANGED libVars
    /\ UNCHANGED <<params, lastRec>>
    /\ UNCHANGED uiVars

\* mutant: the except clause of before-all records the error and does not return
BeforeAllHook_NoReturn ==
    /\ pc = "before_all"
    /\ \E outcome \in Ends(Running) :
          IF outcome = "ok" /\ hook < Len(_hook_list(Reg, "before_all_hooks"))
          THEN SetRunner(NextHook(Runner))
          ELSE SetRunner(EnterTest(
                   [Runner EXCEPT !.result.before_all_error =
                        IF outcome = "ok" THEN None ELSE outcome], 1))
    /\ UNCHANGED <<decl, REGISTRY, tasks, nrec>>
    /\ UNCHANGED icVars
    /\ UNCHANGED libVars
    /\ UNCHANGED <<params, lastRec>>
    /\ UNCHANGED uiVars

\* run_file 52-56: the running before-all hook ends
BeforeAllHook ==
    /\ pc = "before_all"
    /\ \E outcome \in Ends(Running) :
          IF outcome = "ok"
          THEN IF hook < Len(_hook_list(Reg, "before_all_hooks"))
               THEN SetRunner(NextHook(Runner))
               ELSE SetRunner(EnterTest(Runner, 1))
          ELSE SetRunner([Runner EXCEPT !.result.before_all_error = outcome,
                                        !.pc = "returned", !.hook = 0])
    /\ UNCHANGED <<decl, REGISTRY, tasks, nrec>>
    /\ UNCHANGED icVars
    /\ UNCHANGED libVars
    /\ UNCHANGED <<params, lastRec>>
    /\ UNCHANGED uiVars

\* run_file 65-67: the running before-each hook ends
\* (variant: an error of a before-each hook ends the test without its after-each hooks)
BeforeEachHook_NoAfterEach ==
    /\ pc = "before_each"
    /\ \E outcome \in Ends(Running) :
          IF outcome = "ok"
          THEN IF hook < Len(_hook_list(Reg, "before_each_hooks"))
               THEN SetRunner(NextHook(Runner))
               ELSE SetRunner(Logged([Runner EXCEPT !.pc = "body", !.hook = 1],
                                     "body", test, 1))
          ELSE SetRunner(FinishTest([Runner EXCEPT !.status = StatusOf(outcome),
                                                   !.err = outcome], "ok"))
    /\ UNCHANGED <<decl, REGISTRY, tasks, nrec>>
    /\ UNCHANGED icVars
    /\ UNCHANGED libVars
    /\ UNCHANGED <<params, lastRec>>
    /\ UNCHANGED uiVars

BeforeEachHook ==
    /\ pc = "before_each"
    /\ \E outcome \in Ends(Running) :
          IF outcome = "ok"
          THEN IF hook < Len(_hook_list(Reg, "before_each_hooks"))
               THEN SetRunner(NextHook(Runner))
               ELSE SetRunner(Logged([Runner EXCEPT !.pc = "body", !.hook = 1],
                                     "body", test, 1))
          ELSE SetRunner(EnterAfterEach(Runner, outcome))
    /\ UNCHANGED <<decl, REGISTRY, tasks, nrec>>
    /\ UNCHANGED icVars
    /\ UNCHANGED libVars
    /\ UNCHANGED <<params, lastRec>>
    /\ UNCHANGED uiVars

\* run_file 67-76: the test body ends
Body ==
    /\ pc = "body"
    /\ \E outcome \in Ends(Running) : SetRunner(EnterAfterEach(Runner, outcome))
    /\ UNCHANGED <<decl, REGISTRY, tasks, nrec>>
    /\ UNCHANGED icVars
    /\ UNCHANGED libVars
    /\ UNCHANGED <<params, lastRec>>
    /\ UNCHANGED uiVars

\* run_file 74-88: the running after-each hook ends
AfterEachHook ==
    /\ pc = "after_each"
    /\ \E outcome \in Ends(Running) :
          IF outcome = "ok" /\ hook < Len(_hook_list(Reg, "after_each_hooks"))
          THEN SetRunner(NextHook(Runner))
          ELSE SetRunner(FinishTest(Runner, outcome))
    /\ UNCHANGED <<decl, REGISTRY, tasks, nrec>>
    /\ UNCHANGED icVars
    /\ UNCHANGED libVars
    /\ UNCHANGED <<params, lastRec>>
    /\ UNCHANGED uiVars

\* run_file 90-94: the running after-all hook ends
AfterAllHook ==
    /\ pc = "after_all"
    /\ \E outcome \in Ends(Running) :
          IF outcome = "ok"
          THEN IF hook < Len(_hook_list(Reg, "after_all_hooks"))
               THEN SetRunner(NextHook(Runner))
               ELSE SetRunner([Runner EXCEPT !.pc = "returned", !.hook = 0])
          ELSE SetRunner([Runner EXCEPT !.result.after_all_error = outcome,
                                        !.pc = "returned", !.hook = 0])
    /\ UNCHANGED <<decl, REGISTRY, tasks, nrec>>
    /\ UNCHANGED icVars
    /\ UNCHANGED libVars
    /\ UNCHANGED <<params, lastRec>>
    /\ UNCHANGED uiVars

\* ------------------------------------------------------------------ user code
\* what user code records: the test the runner was running when it recorded, and
\* the test whose context (its TestContext, or the context variables of its turn)
\* the record went through
Entry(via) == [during |-> test, via |-> via]

\* asyncio.create_task in a hook or body: the new task runs in a copy of the
\* caller's context, so its _current_trace is the caller's (trace.py 81) and stays
\* so whatever the runner sets later.  Tasks are told apart by their contexts only,
\* and a task whose context holds no trace reaches none.
SpawnTask ==
    /\ pc \in UserPhases
    /\ get_current_trace(current) # NoTrace
    /\ [current |-> current, test |-> test] \notin tasks
    /\ tasks' = tasks \cup {[current |-> current, test |-> test]}
    /\ UNCHANGED <<decl, REGISTRY, pc, hook, test, status, err, result, traces,
                   current, nrec, log>>
    /\ UNCHANGED icVars
    /\ UNCHANGED libVars
    /\ UNCHANGED extVars

\* get_current_trace().record_*(...) by code the runner's task runs (a hook, a
\* body, application code they call, the interceptor observing their sends):
\* nothing happens without a current trace
RecordAmbient ==
    /\ pc \in UserPhases
    /\ nrec < MaxRecords
    /\ get_current_trace(current) # NoTrace
    /\ \E k \in Kinds :
          traces' = [traces EXCEPT ![get_current_trace(current)] =
                                   RecordKind(@, k, Entry(test))]
    /\ nrec' = nrec + 1
    /\ UNCHANGED <<decl, REGISTRY, pc, hook, test, status, err, result, current,
                   tasks, log>>
    /\ UNCHANGED icVars
    /\ UNCHANGED libVars
    /\ UNCHANGED extVars

\* the same by code of a task user code started, in that task's context
TaskRecordAmbient ==
    /\ nrec < MaxRecords
    /\ \E c \in tasks, k \in Kinds :
          traces' = [traces EXCEPT ![get_current_trace(c.current)] =
                                   RecordKind(@, k, Entry(c.test))]
    /\ nrec' = nrec + 1
    /\ UNCHANGED <<decl, REGISTRY, pc, hook, test, status, err, result, current,
                   tasks, log>>
    /\ UNCHANGED icVars
    /\ UNCHANGED libVars
    /\ UNCHANGED extVars

\* ctx.trace.record_*(...) on a TestContext the runner's task's user code holds:
\* one a hook or body of this run was called with, in the running test or earlier
RecordHeld ==
    /\ pc \in UserPhases
    /\ nrec < MaxRecords
    /\ \E i \in 1..Len(callLog), k \in Kinds :
          /\ callLog[i].args # <<>>
          /\ traces' = [traces EXCEPT ![callLog[i].args[1].trace] =
                                      RecordKind(@, k, Entry(callLog[i].test))]
    /\ nrec' = nrec + 1
    /\ UNCHANGED <<decl, REGISTRY, pc, hook, test, status, err, result, current,
                   tasks, log>>
    /\ UNCHANGED icVars
    /\ UNCHANGED libVars
    /\ UNCHANGED extVars

\* ================================================ interceptors/ai_interceptor.py
Clients == {"httpx.AsyncClient", "httpx.Client", "requests.Session"}

\* ---- what a request carries.  A URL is the set of the substrings the code
\* looks for that occur in it.
Urls ==
    { {"openai.com", "/v1/chat/completions"},
      {"x.ai", "grok"},
      {} }

Str(v) == [t |-> "str", v |-> v]          \* a JSON string
NonText == [t |-> "list", v |-> "parts"]  \* a non-empty JSON array as content
Absent == [t |-> "absent", v |-> ""]

Msg(role, content) == [obj |-> TRUE, role |-> role, content |-> content]
NotAMsg == [obj |-> FALSE, role |-> "", content |-> Absent]   \* e.g. a JSON string

\* a decoded JSON value: an object with the keys the code reads, or another value
Object(model, messages, stream) ==
    [obj |-> TRUE, model |-> model, messages |-> messages, stream |-> stream]
NotAnObject ==
    [obj |-> FALSE, model |-> Nothing, messages |-> [t |-> "absent", v |-> <<>>],
     stream |-> "absent"]
NoMessages == [t |-> "absent", v |-> <<>>]
Messages(ms) == [t |-> "list", v |-> ms]
MessagesNotAList == [t |-> "other", v |-> <<>>]   \* a non-empty string, a number, an object

\* the request bodies: how reading goes, and what the text decodes to
Json(value) == [kind |-> "json", value |-> value]
Bodies ==
    { [kind |-> "unreadable", value |-> NotAnObject],
      [kind |-> "empty", value |-> NotAnObject],
      [kind |-> "nonjson", value |-> NotAnObject],
      Json(NotAnObject),
      Json(Object(Some("gpt-4o-mini"), NoMessages, "absent")),
      Json(Object(Nothing, Messages(<<Msg("system", Str("be brief")),
                                      Msg("user", Str("hello"))>>), "true")),
      Json(Object(Some("gpt-4o-mini"), Messages(<<Msg("user", Str("a")),
                                                  Msg("user", Str("")),
                                                  Msg("assistant", Str("c")),
                                                  Msg("user", Str("b"))>>), "false")),
      Json(Object(Nothing, Messages(<<>>), "absent")),
      Json(Object(Nothing, Messages(<<NotAMsg>>), "absent")),
      Json(Object(Nothing, Messages(<<Msg("user", NonText)>>), "absent")),
      Json(Object(Nothing, MessagesNotAList, "absent")) }

\* _infer_provider 115-122
_infer_provider(url) ==
    IF "openai.com" \in url \/ "/v1/chat/completions" \in url THEN Some("openai")
    ELSE IF "generativelanguage" \in url THEN Some("gemini")
    ELSE IF "x.ai" \in url \/ "grok" \in url THEN Some("grok")
    ELSE Nothing

\* _infer_model_from_url 125-130
_infer_model_from_url(url) ==
    IF "gpt" \in url THEN Some("gpt")
    ELSE IF "grok" \in url THEN Some("grok")
    ELSE Nothing

\* LLMStep(model, provider, prompt, completion)
LLMStep(model, provider, prompt, completion) ==
    [model |-> model, provider |-> provider, prompt |-> prompt, completion |-> completion,
     contains |-> Nothing]

\* "\n\n".join(parts): the parts with the separator between them
RECURSIVE Join(_)
Join(parts) ==
    IF Len(parts) = 0 THEN <<>>
    ELSE IF Len(parts) = 1 THEN <<parts[1]>>
    ELSE <<parts[1], "\n\n">> \o Join(Tail(parts))

\* [m.get("content") for m in messages if m.get("role") == "user"]
RECURSIVE UserContents(_)
UserContents(ms) ==
    IF Len(ms) = 0 THEN <<>>
    ELSE IF ms[1].role = "user" THEN <<ms[1].content>> \o UserContents(Tail(ms))
    ELSE UserContents(Tail(ms))

\* [p for p in prompt_parts if p]: None and "" are dropped
RECURSIVE Truthy(_)
Truthy(ps) ==
    IF Len(ps) = 0 THEN <<>>
    ELSE IF ps[1].t = "absent" \/ (ps[1].t = "str" /\ ps[1].v = "") THEN Truthy(Tail(ps))
    ELSE <<ps[1]>> \o Truthy(Tail(ps))

Values(ps) == [i \in 1..Len(ps) |-> ps[i].v]

\* json.loads(body_bytes.decode() or "{}") inside try/except: 99-102
LoadPayload(body) ==
    IF body.kind = "json" THEN body.value
    ELSE Object(Nothing, NoMessages, "absent")

\* _record_common 98-112: the error it raises ("" when none) and the trace after it
_record_common(trace, url, body) ==
    LET payload == LoadPayload(body)
        ms == payload.messages
        parts == Truthy(UserContents(ms.v))
        model == IF payload.model # Nothing THEN payload.model
                 ELSE _infer_model_from_url(url)
        prompt == IF ms.t = "list" /\ Len(ms.v) > 0 THEN Some(Join(Values(parts)))
                  ELSE Nothing
        completion == IF payload.stream = "true" THEN Some("(streamed)") ELSE Nothing
        step == LLMStep(IF model # Nothing THEN model[1] ELSE "unknown",
                        _infer_provider(url), prompt, completion)
    IN  IF ~payload.obj
        THEN [error |-> "AttributeError", trace |-> trace]       \* payload.get
        ELSE IF ms.t = "other"
        THEN [error |-> "AttributeError", trace |-> trace]       \* m.get on a non-object
        ELSE IF \E i \in 1..Len(ms.v) : ~ms.v[i].obj
        THEN [error |-> "AttributeError", trace |-> trace]       \* m.get on a non-object
        ELSE IF \E i \in 1..Len(parts) : parts[i].t # "str"
        THEN [error |-> "TypeError", trace |-> trace]            \* join of a non-string
        ELSE [error |-> "", trace |-> record_llm_step(trace, step)]

\* request.read() in try/except (78-81), request.body (90-94): the bytes handed on.
\* An unreadable httpx body becomes b""; the requests path hands the body on as it is.
BodyRead(client, body) ==
    IF client # "requests.Session" /\ body.kind = "unreadable"
    THEN [kind |-> "empty", value |-> NotAnObject]
    ELSE body

\* mutant: without a current trace the observer falls back to the trace created last
_record_if_llm_LastTrace(client, cur, trs, req) ==
    LET c == IF get_current_trace(cur) = NoTrace THEN Len(trs) ELSE cur
    IN  IF c = 0
        THEN [error |-> "", traces |-> trs]
        ELSE LET r == _record_common(trs[c], req.url, BodyRead(client, req.body))
             IN  [error |-> r.error, traces |-> [trs EXCEPT ![c] = r.trace]]

\* _record_if_llm 73-82 and _record_if_llm_request 85-95, in a context whose
\* current trace is cur: the error raised and the traces afterwards
_record_if_llm(client, cur, trs, req) ==
    IF get_current_trace(cur) = NoTrace
    THEN [error |-> "", traces |-> trs]
    ELSE LET r == _record_common(trs[cur], req.url, BodyRead(client, req.body))
         IN  [error |-> r.error, traces |-> [trs EXCEPT ![cur] = r.trace]]

\* mutant: install does not look at _installed
AlreadyInstalled_Unchecked == FALSE

\* install_ai_interceptor 20-21: the guard
AlreadyInstalled == installed

\* install_ai_interceptor 18-55
install_ai_interceptor ==
    IF AlreadyInstalled
    THEN UNCHANGED <<installed, saved, slot>>
    ELSE /\ installed' = TRUE
         /\ saved' = [c \in Clients |->
                        IF c = "requests.Session" /\ ~hasRequests THEN None ELSE slot[c]]
         /\ slot' = [c \in Clients |->
                        IF c = "requests.Session" /\ ~hasRequests THEN slot[c]
                        ELSE "wrapper"]

\* uninstall_ai_interceptor 58-70
uninstall_ai_interceptor ==
    IF ~installed
    THEN UNCHANGED <<installed, saved, slot>>
    ELSE /\ installed' = FALSE
         /\ slot' = [c \in Clients |-> IF saved[c] # None THEN saved[c] ELSE slot[c]]
         /\ UNCHANGED saved

\* One call of client.send(request): the function in the slot runs.  The original
\* send ends as the network decides (origResult).  A wrapper (27-37, 47-51) observes
\* the request and then calls the saved original, read from the module's global at
\* the time of the call.  st counts what happened.
RECURSIVE CallSend(_, _, _, _, _, _)
CallSend(fn, client, req, origResult, st, fuel) ==
    IF fuel = 0 THEN [st EXCEPT !.result = "RecursionError"]
    ELSE IF fn = "original"
    THEN [st EXCEPT !.original = @ + 1, !.result = origResult]
    ELSE LET o == _record_if_llm(client, current, st.traces, req)
             st1 == [st EXCEPT !.observed = @ + 1, !.traces = o.traces]
         IN  IF o.error # "" THEN [st1 EXCEPT !.result = o.error]
             ELSE IF saved[client] # None
             THEN CallSend(saved[client], client, req, origResult, st1, fuel - 1)
             ELSE [st1 EXCEPT !.result = "None"]

RECURSIVE Steps(_, _)
Steps(trs, i) ==
    IF i > Len(trs) THEN 0
    ELSE Len(trs[i].llm) + Len(trs[i].tool) + Len(trs[i].custom) + Steps(trs, i + 1)

\* install twice in a row, then uninstall twice in a row
Scenario == <<"install", "install", "uninstall", "uninstall">>

\* After one more call op: the length of the longest suffix of the calls made so
\* far that is a prefix of Scenario, given that it was n before the call.
Keep(n, op) ==
    LET h == SubSeq(Scenario, 1, n) \o <<op>>
        fits(k) == SubSeq(h, Len(h) - k + 1, Len(h)) = SubSeq(Scenario, 1, k)
        ks == {k \in 0..Len(Scenario) : k <= Len(h) /\ fits(k)}
    IN  CHOOSE k \in ks : \A j \in ks : j <= k

\* ---- the operations of SpecInterceptor
NoSend ==
    [called |-> FALSE, body |-> "", sent |-> <<>>, active |-> FALSE, wrapped |-> FALSE,
     observed |-> 0, original |-> 0, result |-> "", origResult |-> ""]

Install ==
    /\ install_ai_interceptor
    /\ ops' = Keep(ops, "install")
    /\ lastSend' = NoSend
    /\ UNCHANGED hasRequests
    /\ UNCHANGED runnerVars
    /\ UNCHANGED libVars
    /\ UNCHANGED extVars

Uninstall ==
    /\ uninstall_ai_interceptor
    /\ ops' = Keep(ops, "uninstall")
    /\ lastSend' = NoSend
    /\ UNCHANGED hasRequests
    /\ UNCHANGED runnerVars
    /\ UNCHANGED libVars
    /\ UNCHANGED extVars

\* application code sends a request through one of the clients
Send ==
    /\ nrec < MaxRecords
    /\ \E c \in Clients, url \in Urls, body \in Bodies,
          origResult \in {"response", "ConnectError"} :
          /\ c = "requests.Session" => hasRequests
          /\ LET st == CallSend(slot[c], c, [url |-> url, body |-> body], origResult,
                                [traces |-> traces, observed |-> 0, original |-> 0,
                                 result |-> ""], MaxDepth)
             IN  /\ traces' = st.traces
                 /\ nrec' = Steps(st.traces, 1)
                 /\ lastSend' = [called |-> TRUE, body |-> body.kind, sent |-> <<body>>,
                                 active |-> current # NoTrace,
                                 wrapped |-> slot[c] = "wrapper",
                                 observed |-> st.observed, original |-> st.original,
                                 result |-> st.result, origResult |-> origResult]
    /\ UNCHANGED <<decl, REGISTRY, pc, hook, test, status, err, result, current,
                   tasks, log>>
    /\ UNCHANGED <<installed, saved, slot, hasRequests, ops>>
    /\ UNCHANGED libVars
    /\ UNCHANGED extVars

\* set_current_trace(TraceHandle()): a test starts
ActivateTrace ==
    /\ Len(traces) < MaxTraces
    /\ traces' = Append(traces, TraceHandle)
    /\ current' = set_current_trace(Len(traces) + 1)
    /\ lastSend' = NoSend
    /\ UNCHANGED <<decl, REGISTRY, pc, hook, test, status, err, result, tasks, nrec, log>>
    /\ UNCHANGED <<installed, saved, slot, hasRequests, ops>>
    /\ UNCHANGED libVars
    /\ UNCHANGED extVars

\* set_current_trace(None): a test ends
ClearTrace ==
    /\ current # NoTrace
    /\ current' = set_current_trace(NoTrace)
    /\ lastSend' = NoSend
    /\ UNCHANGED <<decl, REGISTRY, pc, hook, test, status, err, result, traces, tasks,
                   nrec, log>>
    /\ UNCHANGED <<installed, saved, slot, hasRequests, ops>>
    /\ UNCHANGED libVars
    /\ UNCHANGED extVars

\* =================================================== trace.py, as objects
\* A Python list is an object: two references to one list see each other's
\* changes.  heap holds the contents of every list object, handle the references
\* the TraceHandle keeps in _llm_steps, _tool_calls and _custom_steps.

\* a text is the sequence of its characters
StepA == <<"s", "t", "e", "p", " ", "A">>
StepB == <<"s", "t", "e", "p", " ", "B">>
DoneA == <<"d", "o", "n", "e", " ", "A">>
Hello == <<"H", "e", "l", "l", "o">>

\* ToolCall(name, args, result)
ToolCall(name, args, res) == [name |-> name, args |-> args, result |-> res]

\* CustomStep(kind, name, tags, payload, result, metadata)
CustomStep(kind, name, tags, payload, res, metadata) ==
    [kind |-> kind, name |-> name, tags |-> tags, payload |-> payload,
     result |-> res, metadata |-> metadata]

\* the entries user code records
LLMSteps ==
    { LLMStep("gpt-4o-mini", Some("openai"), Some(StepA), Some(DoneA)),
      LLMStep("gpt-4o-mini", Some("openai"), Some(StepB), Nothing),
      LLMStep("unknown", Nothing, Nothing, Some(Hello)) }
ToolCalls ==
    { ToolCall("chargeCard", Some("amount"), Nothing),
      ToolCall("refund", Nothing, Nothing) }
CustomSteps ==
    { CustomStep("setup", Some("before-each"), {"db"}, Some(Hello), Nothing, Nothing),
      CustomStep("teardown", Nothing, {}, Nothing, Some(StepA), Nothing) }
Entries(k) ==
    CASE k = "llm" -> LLMSteps
      [] k = "tool" -> ToolCalls
      [] OTHER -> CustomSteps

\* TraceHandle.__init__ 36-39: three new, empty lists
NewHeap == <<<<>>, <<>>, <<>>>>
NewHandle == [llm |-> 1, tool |-> 2, custom |-> 3]

\* the TraceHandle as a value: the contents of its three lists
View(hp, h) == [llm |-> hp[h.llm], tool |-> hp[h.tool], custom |-> hp[h.custom]]

\* the heap after the lists of the TraceHandle were changed in place to those of tr
Store(hp, h, tr) ==
    [i \in 1..Len(hp) |->
        CASE i = h.llm -> tr.llm
          [] i = h.tool -> tr.tool
          [] i = h.custom -> tr.custom
          [] OTHER -> hp[i]]

\* list(items): a new list object; what a getter returns is a reference and the
\* heap that holds what it refers to
NewList(hp, items) == [ref |-> Len(hp) + 1, heap |-> Append(hp, items)]

\* mutant: the getter returns the list the TraceHandle itself appends to
get_llm_steps_Alias(hp, h) == [ref |-> h.llm, heap |-> hp]

\* TraceHandle.get_llm_steps 59-60
get_llm_steps(hp, h) == NewList(hp, hp[h.llm])

\* TraceHandle.get_tool_calls 62-63
get_tool_calls(hp, h) == NewList(hp, hp[h.tool])

\* TraceHandle.get_custom_steps 65-66
get_custom_steps(hp, h) == NewList(hp, hp[h.custom])

\* the items of the list a getter returned
Items(r) == r.heap[r.ref]

\* mutant: the groups in the order tool calls, LLM steps, custom steps
get_steps_ToolsFirst(hp, h) ==
    NewList(hp, Items(get_tool_calls(hp, h)) \o Items(get_llm_steps(hp, h))
                  \o Items(get_custom_steps(hp, h)))

\* TraceHandle.get_steps 68-73: a new list of the items of the three snapshots,
\* which nothing refers to afterwards
get_steps(hp, h) ==
    NewList(hp, Items(get_llm_steps(hp, h)) \o Items(get_tool_calls(hp, h))
                  \o Items(get_custom_steps(hp, h)))

Getter(k, hp, h) ==
    CASE k = "llm" -> get_llm_steps(hp, h)
      [] k = "tool" -> get_tool_calls(hp, h)
      [] k = "custom" -> get_custom_steps(hp, h)
      [] OTHER -> get_steps(hp, h)

\* what user code does to a list it holds
Reverse(xs) == [i \in 1..Len(xs) |-> xs[Len(xs) + 1 - i]]
Junk == ToolCall("junk", Nothing, Nothing)
Mutated(op, xs) ==
    CASE op = "append" -> Append(xs, Junk)
      [] op = "pop" -> IF Len(xs) = 0 THEN xs ELSE SubSeq(xs, 1, Len(xs) - 1)
      [] op = "reverse" -> Reverse(xs)
      [] OTHER -> <<>>

\* ---- record_*(step=None, **kwargs)
\* the fields of the dataclass of kind k that have no default
Required(k) ==
    CASE k = "llm" -> {"model"}
      [] k = "tool" -> {"name"}
      [] OTHER -> {"kind"}

\* the default of field f: None, and a new empty list for CustomStep.tags
Default(k, f) == IF k = "custom" /\ f = "tags" THEN {} ELSE Nothing

\* the named fields of a call: the names given, and the values they are given
Kwargs(names, values) == [names |-> names, values |-> values]

\* LLMStep(**kwargs), ToolCall(**kwargs), CustomStep(**kwargs): a field that is
\* not named takes its default; a field without a default must be named
Dataclass(k, kw) ==
    LET v(f) == IF f \in kw.names THEN kw.values[f] ELSE Default(k, f)
    IN  IF ~(Required(k) \subseteq kw.names)
        THEN [error |-> "TypeError", value |-> kw.values]
        ELSE [error |-> "",
              value |->
                  CASE k = "llm" ->
                           LLMStep(v("model"), v("provider"), v("prompt"), v("completion"))
                    [] k = "tool" -> ToolCall(v("name"), v("args"), v("result"))
                    [] OTHER ->
                           CustomStep(v("kind"), v("name"), v("tags"), v("payload"),
                                      v("result"), v("metadata"))]

\* record_llm_step / record_tool_call / record_custom_step 41-57, as called:
\* `if step is None: step = <dataclass>(**kwargs)`, then the append
RecordCall(trace, k, step, kw) ==
    LET built == IF step # Nothing THEN [error |-> "", value |-> step[1]]
                 ELSE Dataclass(k, kw)
    IN  IF built.error # "" THEN [error |-> built.error, trace |-> trace]
        ELSE [error |-> "", trace |-> RecordKind(trace, k, built.value)]

\* the fields of entry e that differ from their defaults
NonDefault(k, e) ==
    Required(k) \cup {f \in DOMAIN e \ Required(k) : e[f] # Default(k, f)}

\* the ways user code records entry e: as a value, by naming the fields that
\* differ from the defaults, by naming every field, as a value with named fields
\* besides (which are ignored), or, wrongly, by naming the optional fields only
RecordArgs(k, e) ==
    { [step |-> Some(e), kwargs |-> Kwargs({}, e)],
      [step |-> Nothing, kwargs |-> Kwargs(NonDefault(k, e), e)],
      [step |-> Nothing, kwargs |-> Kwargs(DOMAIN e \ {"contains"}, e)],
      [step |-> Some(e), kwargs |-> Kwargs(Required(k), e)],
      [step |-> Nothing, kwargs |-> Kwargs(NonDefault(k, e) \ Required(k), e)] }

NoRec == [called |-> FALSE, kind |-> "", step |-> Nothing, kwargs |-> Kwargs({}, <<>>),
          error |-> ""]

\* ---- the operation of SpecRecord
\* trace.record_llm_step / record_tool_call / record_custom_step, in each way of
\* calling it
RecordAs ==
    /\ Len(order) < MaxSteps
    /\ \E k \in Kinds : \E e \in Entries(k) : \E a \in RecordArgs(k, e) :
          LET r == RecordCall(View(heap, handle), k, a.step, a.kwargs)
          IN  /\ heap' = Store(heap, handle, r.trace)
              /\ order' = IF r.error = "" THEN Append(order, [kind |-> k, entry |-> e])
                          ELSE order
              /\ lastRec' = [called |-> TRUE, kind |-> k, step |-> a.step,
                             kwargs |-> a.kwargs, error |-> r.error]
    /\ UNCHANGED <<handle, snaps, nmut, verdict, lastReg>>
    /\ UNCHANGED runnerVars
    /\ UNCHANGED icVars
    /\ UNCHANGED <<ctx, callLog, params>>
    /\ UNCHANGED uiVars

\* ---- the operations of SpecHandle
\* trace.record_llm_step / record_tool_call / record_custom_step, with an entry
HRecord ==
    /\ Len(order) < MaxSteps
    /\ \E k \in Kinds : \E e \in Entries(k) :
          /\ heap' = Store(heap, handle, RecordKind(View(heap, handle), k, e))
          /\ order' = Append(order, [kind |-> k, entry |-> e])
    /\ UNCHANGED <<handle, snaps, nmut, verdict, lastReg>>
    /\ UNCHANGED runnerVars
    /\ UNCHANGED icVars
    /\ UNCHANGED extVars

\* snapshot = trace.get_...(): user code keeps the list returned; the list it held
\* before is garbage
HGet ==
    /\ \E k \in Kinds \cup {"all"} :
          LET kept == SubSeq(heap, 1, 3)
              r == Getter(k, kept, handle)
          IN  /\ heap' = r.heap
              /\ snaps' = {r.ref}
    /\ nmut' = 0
    /\ UNCHANGED <<handle, order, verdict, lastReg>>
    /\ UNCHANGED runnerVars
    /\ UNCHANGED icVars
    /\ UNCHANGED extVars

\* snapshot.append(x), snapshot.pop(), snapshot.reverse(), snapshot.clear()
HMutate ==
    /\ nmut < MaxMut
    /\ \E ref \in snaps, op \in {"append", "pop", "reverse", "clear"} :
          heap' = [heap EXCEPT ![ref] = Mutated(op, @)]
    /\ nmut' = nmut + 1
    /\ UNCHANGED <<handle, snaps, order, verdict, lastReg>>
    /\ UNCHANGED runnerVars
    /\ UNCHANGED icVars
    /\ UNCHANGED extVars

\* ============================================================== matchers.py
\* str.lower(), per character
Lower(c) ==
    CASE c = "A" -> "a"
      [] c = "B" -> "b"
      [] c = "E" -> "e"
      [] c = "H" -> "h"
      [] c = "L" -> "l"
      [] c = "P" -> "p"
      [] OTHER -> c
LowerText(t) == [i \in 1..Len(t) |-> Lower(t[i])]

\* needle in hay, for two texts
SubText(needle, hay) ==
    \E i \in 0..Len(hay) :
        /\ i + Len(needle) <= Len(hay)
        /\ SubSeq(hay, i + 1, i + Len(needle)) = needle

\* _contains 212-215: container is an Optional text
_contains(container, needle) ==
    IF container = Nothing THEN FALSE
    ELSE SubText(LowerText(needle), LowerText(container[1]))

\* the truth value of an Optional argument: None and the empty string are false
GivenStr(a) == a # Nothing /\ a[1] # ""
GivenText(a) == a # Nothing /\ a[1] # <<>>

\* to_have_llm_step 35-46: matches(step)
MatchesLLM(a, step) ==
    IF GivenStr(a.model) /\ step.model # a.model[1] THEN FALSE
    ELSE IF GivenStr(a.provider) /\ step.provider # a.provider THEN FALSE
    ELSE IF /\ GivenText(a.contains)
            /\ ~_contains(step.prompt, a.contains[1])
            /\ ~_contains(step.completion, a.contains[1]) THEN FALSE
    ELSE IF GivenText(a.prompt_contains) /\ ~_contains(step.prompt, a.prompt_contains[1])
    THEN FALSE
    ELSE IF GivenText(a.output_contains) /\ ~_contains(step.completion, a.output_contains[1])
    THEN FALSE
    ELSE TRUE

\* to_call_tool 63-66: matches(call)
MatchesTool(a, call) ==
    IF GivenStr(a.name) /\ call.name # a.name[1] THEN FALSE ELSE TRUE

\* to_have_custom_step 89-104: matches(step)
MatchesCustom(a, step) ==
    IF GivenStr(a.kind) /\ step.kind # a.kind[1] THEN FALSE
    ELSE IF GivenStr(a.name) /\ step.name # a.name THEN FALSE
    ELSE IF GivenStr(a.tag) /\ a.tag[1] \notin step.tags THEN FALSE
    ELSE IF /\ GivenText(a.contains)
            /\ ~(_contains(step.payload, a.contains[1]) \/ _contains(step.result, a.contains[1]))
    THEN FALSE
    ELSE IF GivenText(a.result_contains) /\ ~_contains(step.result, a.result_contains[1])
    THEN FALSE
    ELSE IF GivenText(a.payload_contains) /\ ~_contains(step.payload, a.payload_contains[1])
    THEN FALSE
    ELSE IF GivenText(a.metadata_contains) /\ ~_contains(step.metadata, a.metadata_contains[1])
    THEN FALSE
    ELSE TRUE

\* to_have_prompt_where 125-132: matches(step)
MatchesPrompt(a, step) ==
    IF GivenText(a.filter_contains) /\ ~_contains(step.prompt, a.filter_contains[1])
    THEN FALSE
    ELSE IF GivenText(a.require_contains) /\ ~_contains(step.prompt, a.require_contains[1])
    THEN FALSE
    ELSE IF /\ GivenText(a.require_not_contains)
            /\ _contains(step.prompt, a.require_not_contains[1]) THEN FALSE
    ELSE TRUE

\* how an assertion ends: it returns, or raises an error with a message
Pass == [ok |-> TRUE, error |-> "", msg |-> ""]
Raise(error, msg) == [ok |-> FALSE, error |-> error, msg |-> msg]

\* mutant: the qualifiers are tested for truth, so that 0 counts as not given
_assert_count_Truthy(hits, times, min_times, max_times) ==
    LET count == Len(SelectSeq(hits, LAMBDA h : h))
        t == times # Nothing /\ times[1] # 0
        mn == min_times # Nothing /\ min_times[1] # 0
        mx == max_times # Nothing /\ max_times[1] # 0
    IN  IF t /\ count # times[1] THEN Raise("AssertionError", "Expected N time(s)")
        ELSE IF mn /\ count < min_times[1]
        THEN Raise("AssertionError", "Expected at least N time(s)")
        ELSE IF mx /\ count > max_times[1]
        THEN Raise("AssertionError", "Expected at most N time(s)")
        ELSE IF ~t /\ ~mn /\ ~mx /\ count = 0
        THEN Raise("AssertionError", "Expected but none recorded")
        ELSE Pass

\* mutant: the none-recorded test is off by one
_assert_count_OffByOne(hits, times, min_times, max_times) ==
    LET count == Len(SelectSeq(hits, LAMBDA h : h))
    IN  IF times # Nothing /\ count # times[1]
        THEN Raise("AssertionError", "Expected N time(s)")
        ELSE IF min_times # Nothing /\ count < min_times[1]
        THEN Raise("AssertionError", "Expected at least N time(s)")
        ELSE IF max_times # Nothing /\ count > max_times[1]
        THEN Raise("AssertionError", "Expected at most N time(s)")
        ELSE IF count <= 1
        THEN Raise("AssertionError", "Expected but none recorded")
        ELSE Pass

\* _assert_count 218-235; hits[i] is predicate(items[i])
_assert_count(hits, times, min_times, max_times) ==
    LET count == Len(SelectSeq(hits, LAMBDA h : h))
    IN  IF times # Nothing /\ count # times[1]
        THEN Raise("AssertionError", "Expected N time(s)")
        ELSE IF min_times # Nothing /\ count < min_times[1]
        THEN Raise("AssertionError", "Expected at least N time(s)")
        ELSE IF max_times # Nothing /\ count > max_times[1]
        THEN Raise("AssertionError", "Expected at most N time(s)")
        ELSE IF times = Nothing /\ min_times = Nothing /\ max_times = Nothing /\ count = 0
        THEN Raise("AssertionError", "Expected but none recorded")
        ELSE Pass

\* _ensure_trace 206-209
_ensure_trace(subject) ==
    IF subject # "TraceHandle"
    THEN Raise("AssertionError", "Expect subject must be a TraceHandle")
    ELSE Pass

\* to_have_llm_step 20-49
to_have_llm_step(subject, hp, h, a, times, min_times, max_times) ==
    IF ~_ensure_trace(subject).ok THEN _ensure_trace(subject)
    ELSE LET steps == Items(get_llm_steps(hp, h))
         IN  _assert_count([i \in 1..Len(steps) |-> MatchesLLM(a, steps[i])],
                           times, min_times, max_times)

\* to_call_tool 52-69
to_call_tool(subject, hp, h, a, times, min_times, max_times) ==
    IF ~_ensure_trace(subject).ok THEN _ensure_trace(subject)
    ELSE LET calls == Items(get_tool_calls(hp, h))
         IN  _assert_count([i \in 1..Len(calls) |-> MatchesTool(a, calls[i])],
                           times, min_times, max_times)

\* to_have_custom_step 72-107
to_have_custom_step(subject, hp, h, a, times, min_times, max_times) ==
    IF ~_ensure_trace(subject).ok THEN _ensure_trace(subject)
    ELSE LET steps == Items(get_custom_steps(hp, h))
         IN  _assert_count([i \in 1..Len(steps) |-> MatchesCustom(a, steps[i])],
                           times, min_times, max_times)

\* ---- positional assertions
\* mutant: with an index the assertion looks for a matching step anywhere
to_have_prompt_where_AnyPosition(subject, hp, h, a, index, nth, times, min_times, max_times) ==
    LET steps == Items(get_llm_steps(hp, h))
        hits == [i \in 1..Len(steps) |-> MatchesPrompt(a, steps[i])]
        idx == IF nth # Nothing THEN nth ELSE index
    IN  IF ~_ensure_trace(subject).ok THEN _ensure_trace(subject)
        ELSE IF idx # Nothing
        THEN IF idx[1] < 0 \/ idx[1] >= Len(steps)
             THEN Raise("AssertionError", "Prompt index out of range")
             ELSE IF \A i \in 1..Len(steps) : ~hits[i]
             THEN Raise("AssertionError", "Prompt at requested index did not match filter")
             ELSE Pass
        ELSE _assert_count(hits, times, min_times, max_times)

\* mutant: the range test is index > len(steps), so steps[len(steps)] is read
to_have_prompt_where_OffByOne(subject, hp, h, a, index, nth, times, min_times, max_times) ==
    LET steps == Items(get_llm_steps(hp, h))
        hits == [i \in 1..Len(steps) |-> MatchesPrompt(a, steps[i])]
        idx == IF nth # Nothing THEN nth ELSE index
    IN  IF ~_ensure_trace(subject).ok THEN _ensure_trace(subject)
        ELSE IF idx # Nothing
        THEN IF idx[1] < 0 \/ idx[1] > Len(steps)
             THEN Raise("AssertionError", "Prompt index out of range")
             ELSE IF idx[1] = Len(steps)
             THEN Raise("IndexError", "list index out of range")
             ELSE IF ~hits[idx[1] + 1]
             THEN Raise("AssertionError", "Prompt at requested index did not match filter")
             ELSE Pass
        ELSE _assert_count(hits, times, min_times, max_times)

\* to_have_prompt_where 110-145; Python's index i is position i + 1 here
to_have_prompt_where(subject, hp, h, a, index, nth, times, min_times, max_times) ==
    LET steps == Items(get_llm_steps(hp, h))
        hits == [i \in 1..Len(steps) |-> MatchesPrompt(a, steps[i])]
        idx == IF nth # Nothing THEN nth ELSE index
    IN  IF ~_ensure_trace(subject).ok THEN _ensure_trace(subject)
        ELSE IF idx # Nothing
        THEN IF idx[1] < 0 \/ idx[1] >= Len(steps)
             THEN Raise("AssertionError", "Prompt index out of range")
             ELSE IF ~hits[idx[1] + 1]
             THEN Raise("AssertionError", "Prompt at requested index did not match filter")
             ELSE Pass
        ELSE _assert_count(hits, times, min_times, max_times)

\* x or "", for an Optional text
OrEmpty(x) == IF x = Nothing THEN <<>> ELSE x[1]

\* what a function returns: a value, or the error it raises
Return(v) == [ok |-> TRUE, error |-> "", msg |-> "", value |-> v]
Raised(r) == [ok |-> FALSE, error |-> r.error, msg |-> r.msg, value |-> <<>>]

\* (variant: with no position given, the completion of the first LLM step)
_latest_completion_First(hp, h, index, nth) ==
    LET steps == Items(get_llm_steps(hp, h))
        idx == IF nth # Nothing THEN nth ELSE index
    IN  IF Len(steps) = 0 THEN Raised(Raise("AssertionError", "No LLM steps recorded"))
        ELSE IF idx = Nothing THEN Return(OrEmpty(steps[1].completion))
        ELSE IF idx[1] < 0 \/ idx[1] >= Len(steps)
        THEN Raised(Raise("AssertionError", "LLM step index out of range"))
        ELSE Return(OrEmpty(steps[idx[1] + 1].completion))

\* _latest_completion 238-248
_latest_completion(hp, h, index, nth) ==
    LET steps == Items(get_llm_steps(hp, h))
        idx == IF nth # Nothing THEN nth ELSE index
    IN  IF Len(steps) = 0 THEN Raised(Raise("AssertionError", "No LLM steps recorded"))
        ELSE IF idx = Nothing THEN Return(OrEmpty(steps[Len(steps)].completion))
        ELSE IF idx[1] < 0 \/ idx[1] >= Len(steps)
        THEN Raised(Raise("AssertionError", "LLM step index out of range"))
        ELSE Return(OrEmpty(steps[idx[1] + 1].completion))

\* ---- the judge model.  A score is a float: not-a-number, or a number, kept in
\* hundredths
Num(n) == [nan |-> FALSE, v |-> n]
NaN == [nan |-> TRUE, v |-> 0]

\* comparisons of floats: every comparison with not-a-number is false
Less(a, b) == ~a.nan /\ ~b.nan /\ a.v < b.v
Differs(a, b) == ~a.nan /\ ~b.nan /\ a.v # b.v    \* abs(a - b) > 1e-6

\* what the judge endpoint does with the request: the exchange fails, or the
\* response carries, as the message content, a text that is not JSON, a JSON value
\* that is not an object, or an object, with or without a "score"
Content(t, score) == [t |-> t, score |-> score]
Score(t, n) == [t |-> t, v |-> n]
Contents ==
    { Content("text", Score("absent", 0)), Content("array", Score("absent", 0)),
      Content("none", Score("absent", 0)) }
    \cup {Content("object", Score(t, 0)) : t \in {"absent", "null", "str", "nan"}}
    \cup {Content("object", Score("num", n)) : n \in {0, 49, 50, 51, 100}}
Replies ==
    {[kind |-> k, content |-> Content("none", Score("absent", 0))] :
        k \in {"ConnectError", "status 500", "body not JSON", "no choices"}}
    \cup {[kind |-> "content", content |-> c] : c \in Contents}

\* _semantic_match 291-295 (_score_output 331-335): json.loads(content), then
\* float(parsed.get("score", 0)), any error becoming an AssertionError
ParseScore(content) ==
    IF content.t # "object"
    THEN Raised(Raise("AssertionError", "Unexpected model response"))
    ELSE CASE content.score.t = "absent" -> Return(Num(0))
           [] content.score.t = "num" -> Return(Num(content.score.v))
           [] content.score.t = "nan" -> Return(NaN)
           [] OTHER -> Raised(Raise("AssertionError", "Unexpected model response"))

\* _semantic_match 286-295 (_score_output 326-335): the exchange with the judge
JudgeCall(reply) ==
    CASE reply.kind = "ConnectError" -> Raised(Raise("ConnectError", ""))
      [] reply.kind = "status 500" -> Raised(Raise("HTTPStatusError", ""))
      [] reply.kind = "body not JSON" -> Raised(Raise("JSONDecodeError", ""))
      [] reply.kind = "no choices" -> Raised(Raise("KeyError", "choices"))
      [] OTHER -> ParseScore(reply.content)

\* api_key or os.getenv("OPENAI_API_KEY"), then `if not api_key`
HasKey(cred) == GivenStr(cred.api_key) \/ GivenStr(cred.env)

\* _semantic_match 255-295
_semantic_match(cred, reply) ==
    IF ~HasKey(cred)
    THEN Raised(Raise("AssertionError", "OPENAI_API_KEY is required for semantic match"))
    ELSE JudgeCall(reply)

\* _score_output 298-335
_score_output(cred, reply) ==
    IF ~HasKey(cred)
    THEN Raised(Raise("AssertionError", "OPENAI_API_KEY is required for evaluation"))
    ELSE JudgeCall(reply)

\* _check_condition 338-344
_check_condition(score, condition) ==
    IF condition.at_least # Nothing /\ Less(score, Num(condition.at_least[1]))
    THEN Raise("AssertionError", "Score below threshold")
    ELSE IF condition.at_most # Nothing /\ Less(Num(condition.at_most[1]), score)
    THEN Raise("AssertionError", "Score above threshold")
    ELSE IF condition.equals # Nothing /\ Differs(score, Num(condition.equals[1]))
    THEN Raise("AssertionError", "Score not equal")
    ELSE Pass

\* the threshold of to_match_semantic_output, in hundredths
SemanticThreshold == 50

\* mutant: a score equal to the threshold fails
to_match_semantic_output_Strict(subject, hp, h, cred, reply) ==
    LET actual == _latest_completion(hp, h, Nothing, Nothing)
        score == _semantic_match(cred, reply)
    IN  IF ~_ensure_trace(subject).ok THEN _ensure_trace(subject)
        ELSE IF ~actual.ok THEN Raise(actual.error, actual.msg)
        ELSE IF ~score.ok THEN Raise(score.error, score.msg)
        ELSE IF ~Less(Num(SemanticThreshold), score.value)
        THEN Raise("AssertionError", "Semantic match score too low")
        ELSE Pass

\* to_match_semantic_output 148-169
to_match_semantic_output(subject, hp, h, cred, reply) ==
    LET actual == _latest_completion(hp, h, Nothing, Nothing)
        score == _semantic_match(cred, reply)
    IN  IF ~_ensure_trace(subject).ok THEN _ensure_trace(subject)
        ELSE IF ~actual.ok THEN Raise(actual.error, actual.msg)
        ELSE IF ~score.ok THEN Raise(score.error, score.msg)
        ELSE IF Less(score.value, Num(SemanticThreshold))
        THEN Raise("AssertionError", "Semantic match score too low")
        ELSE Pass

\* `if condition:` - None and {} are false
GivenCondition(condition) ==
    condition.at_least # Nothing \/ condition.at_most # Nothing \/ condition.equals # Nothing

\* to_evaluate_output_metric 172-196: the score it returns, or the error it raises
to_evaluate_output_metric(subject, hp, h, index, nth, condition, cred, reply) ==
    LET actual == _latest_completion(hp, h, index, nth)
        score == _score_output(cred, reply)
    IN  IF ~_ensure_trace(subject).ok THEN Raised(_ensure_trace(subject))
        ELSE IF ~actual.ok THEN actual
        ELSE IF ~score.ok THEN score
        ELSE IF GivenCondition(condition) /\ ~_check_condition(score.value, condition).ok
        THEN Raised(_check_condition(score.value, condition))
        ELSE score

\* _semantic_match 263-286 (_score_output 306-326): with a credential the payload
\* is built around `actual` and posted to the judge; what the judge is asked
\* about, or Nothing when no request is made
JudgeRequest(actual, cred) == IF HasKey(cred) THEN Some(actual) ELSE Nothing

\* to_match_semantic_output 158-160, to_evaluate_output_metric 185-187: what the
\* judge is asked about in a call of the assertion
Asked(subject, hp, h, index, nth, cred) ==
    LET actual == _latest_completion(hp, h, index, nth)
    IN  IF ~_ensure_trace(subject).ok \/ ~actual.ok THEN Nothing
        ELSE JudgeRequest(actual.value, cred)

\* ---- the calls test code makes
Opt(S) == {Nothing} \cup {Some(v) : v \in S}

\* the number of arguments of a that are given
NGiven(a) == Cardinality({f \in DOMAIN a : a[f] # Nothing})

LLMArgs ==
    {a \in [model : Opt({"gpt-4o-mini", ""}), provider : Opt({"openai"}),
            contains : Opt({<<"h", "E", "L">>}),
            prompt_contains : Opt({<<"P", " ", "a">>}),
            output_contains : Opt({<<"d", "o", "n", "e">>})] : NGiven(a) <= 2}
ToolArgs == [name : Opt({"chargeCard", "nonexistentTool", ""})]
CustomArgs ==
    {a \in [kind : Opt({"setup"}), name : Opt({"before-each"}), tag : Opt({"db"}),
            contains : Opt({<<"s", "t", "e", "p">>}),
            result_contains : Opt({<<"p", " ", "A">>}),
            payload_contains : Opt({<<"h", "e", "l", "l", "o">>}),
            metadata_contains : Opt({<<"x">>})] : NGiven(a) <= 1}

\* times, min_times, max_times
Quals == Opt(0..MaxMatchSteps)

CountCalls ==
    [matcher : {"to_have_llm_step"}, subject : {"TraceHandle"}, args : LLMArgs,
     times : Quals, min_times : Quals, max_times : Quals]
    \cup [matcher : {"to_call_tool"}, subject : {"TraceHandle"}, args : ToolArgs,
          times : Quals, min_times : Quals, max_times : Quals]
    \cup [matcher : {"to_have_custom_step"}, subject : {"TraceHandle"}, args : CustomArgs,
          times : Quals, min_times : Quals, max_times : Quals]
    \cup [matcher : {"to_call_tool"}, subject : {"str"}, args : ToolArgs,
          times : {Nothing}, min_times : {Nothing}, max_times : {Nothing}]

\* expect(subject).<matcher>(**args, times=, min_times=, max_times=)
Expect(c, hp, h) ==
    CASE c.matcher = "to_have_llm_step" ->
             to_have_llm_step(c.subject, hp, h, c.args, c.times, c.min_times, c.max_times)
      [] c.matcher = "to_call_tool" ->
             to_call_tool(c.subject, hp, h, c.args, c.times, c.min_times, c.max_times)
      [] OTHER ->
             to_have_custom_step(c.subject, hp, h, c.args, c.times, c.min_times, c.max_times)

NoVerdict == [called |-> FALSE, call |-> <<>>, out |-> Pass]

\* ---- the operations of SpecMatch
\* trace.record_*: as HRecord, for the traces assertions are made on
MRecord ==
    /\ ~verdict.called
    /\ Len(order) < MaxMatchSteps
    /\ \E k \in Kinds : \E e \in Entries(k) :
          /\ heap' = Store(heap, handle, RecordKind(View(heap, handle), k, e))
          /\ order' = Append(order, [kind |-> k, entry |-> e])
    /\ verdict' = NoVerdict
    /\ UNCHANGED <<handle, snaps, nmut, lastReg>>
    /\ UNCHANGED runnerVars
    /\ UNCHANGED icVars
    /\ UNCHANGED extVars

\* a count assertion on the trace; the snapshot it takes is garbage afterwards
ExpectCount ==
    /\ ~verdict.called
    /\ \E c \in CountCalls :
          verdict' = [called |-> TRUE, call |-> c, out |-> Expect(c, heap, handle)]
    /\ UNCHANGED <<heap, handle, snaps, nmut, order, lastReg>>
    /\ UNCHANGED runnerVars
    /\ UNCHANGED icVars
    /\ UNCHANGED extVars

\* ---- the operations of SpecJudge
PromptArgs ==
    [filter_contains : Opt({StepA}), require_contains : Opt({<<"S", "T", "E", "P">>}),
     require_not_contains : Opt({<<"b">>})]

\* index, nth
Positions == Opt(-1..MaxMatchSteps)

\* the api_key argument and the OPENAI_API_KEY variable of the environment
Creds ==
    { [api_key |-> Nothing, env |-> Nothing], [api_key |-> Some("sk"), env |-> Nothing],
      [api_key |-> Nothing, env |-> Some("sk")], [api_key |-> Some(""), env |-> Nothing] }

Conditions ==
    { [at_least |-> Nothing, at_most |-> Nothing, equals |-> Nothing],
      [at_least |-> Some(50), at_most |-> Nothing, equals |-> Nothing],
      [at_least |-> Nothing, at_most |-> Some(49), equals |-> Nothing],
      [at_least |-> Nothing, at_most |-> Nothing, equals |-> Some(50)] }

\* expect(trace).to_have_prompt_where(...)
ExpectPrompt ==
    /\ ~verdict.called
    /\ \E a \in PromptArgs, index \in Positions, nth \in Positions,
          times \in {Nothing, Some(0)} :
          verdict' =
              [called |-> TRUE,
               call |-> [matcher |-> "to_have_prompt_where", args |-> a, index |-> index,
                         nth |-> nth, times |-> times],
               out |-> to_have_prompt_where("TraceHandle", heap, handle, a, index, nth,
                                            times, Nothing, Nothing)]
    /\ UNCHANGED <<heap, handle, snaps, nmut, order, lastReg>>
    /\ UNCHANGED runnerVars
    /\ UNCHANGED icVars
    /\ UNCHANGED extVars

\* await expect(trace).to_match_semantic_output(expected, api_key=...)
ExpectSemantic ==
    /\ ~verdict.called
    /\ \E cred \in Creds, reply \in Replies :
          verdict' =
              [called |-> TRUE,
               call |-> [matcher |-> "to_match_semantic_output", cred |-> cred,
                         reply |-> reply],
               asked |-> Asked("TraceHandle", heap, handle, Nothing, Nothing, cred),
               out |-> to_match_semantic_output("TraceHandle", heap, handle, cred, reply)]
    /\ UNCHANGED <<heap, handle, snaps, nmut, order, lastReg>>
    /\ UNCHANGED runnerVars
    /\ UNCHANGED icVars
    /\ UNCHANGED extVars

\* await expect(trace).to_evaluate_output_metric(prompt, nth=, index=, condition=, api_key=)
ExpectMetric ==
    /\ ~verdict.called
    /\ \E index \in {Nothing, Some(0)}, nth \in Positions, condition \in Conditions,
          cred \in Creds, reply \in Replies :
          verdict' =
              [called |-> TRUE,
               call |-> [matcher |-> "to_evaluate_output_metric", index |-> index,
                         nth |-> nth, condition |-> condition, cred |-> cred,
                         reply |-> reply],
               asked |-> Asked("TraceHandle", heap, handle, index, nth, cred),
               out |-> to_evaluate_output_metric("TraceHandle", heap, handle, index, nth,
                                                 condition, cred, reply)]
    /\ UNCHANGED <<heap, handle, snaps, nmut, order, lastReg>>
    /\ UNCHANGED runnerVars
    /\ UNCHANGED icVars
    /\ UNCHANGED extVars

\* ---- the judge call, seen by the interceptor (SpecObserved)
\* the request _semantic_match (263-286) and _score_output (306-326) post: the
\* chat-completions URL of the default base_url, and the payload with its messages
JudgeUrl == {"openai.com", "/v1/chat/completions"}
JudgeBody(matcher) ==
    IF matcher = "to_match_semantic_output"
    THEN Json(Object(Some("gpt-4o-mini"),
                     Messages(<<Msg("system", Str("You are grading a semantic similarity test.")),
                                Msg("user", Str("{expected, actual}"))>>), "absent"))
    ELSE Json(Object(Some("gpt-4o-mini"),
                     Messages(<<Msg("system", Str("You are grading model output.")),
                                Msg("user", Str("evaluation_prompt")),
                                Msg("assistant", Str("actual"))>>), "absent"))

\* await expect(trace).to_match_semantic_output(...) or .to_evaluate_output_metric(...)
\* in a process where the interceptor may be installed, on a trace that may be
\* the current one (cur): the judge's request goes out through
\* httpx.AsyncClient.send, and a wrapper in that slot observes it like any other
\* request (ai_interceptor.py 27-31, 73-82) before the original send is called
ExpectObserved ==
    /\ ~verdict.called
    /\ Len(order) < MaxMatchSteps
    /\ \E matcher \in {"to_match_semantic_output", "to_evaluate_output_metric"},
          nth \in {Nothing, Some(0)}, cred \in Creds, reply \in Replies, cur \in BOOLEAN :
          LET pos == IF matcher = "to_evaluate_output_metric" THEN nth ELSE Nothing
              asked == Asked("TraceHandle", heap, handle, Nothing, pos, cred)
              seen == /\ asked # Nothing
                      /\ slot["httpx.AsyncClient"] = "wrapper"
                      /\ cur
              r == _record_common(View(heap, handle), JudgeUrl, JudgeBody(matcher))
              out == IF matcher = "to_match_semantic_output"
                     THEN to_match_semantic_output("TraceHandle", heap, handle, cred, reply)
                     ELSE to_evaluate_output_metric("TraceHandle", heap, handle, Nothing, pos,
                                                    [at_least |-> Nothing, at_most |-> Nothing,
                                                     equals |-> Nothing], cred, reply)
          IN  /\ verdict' = [called |-> TRUE,
                             call |-> [matcher |-> matcher, nth |-> pos, cred |-> cred,
                                       reply |-> reply, cur |-> cur],
                             asked |-> asked,
                             out |-> out]
              /\ heap' = IF seen THEN Store(heap, handle, r.trace) ELSE heap
              /\ order' = IF seen
                          THEN Append(order, [kind |-> "llm",
                                              entry |-> r.trace.llm[Len(r.trace.llm)]])
                          ELSE order
    /\ UNCHANGED <<handle, snaps, nmut, lastReg>>
    /\ UNCHANGED runnerVars
    /\ UNCHANGED icVars
    /\ UNCHANGED extVars

\* the assertion has returned or raised: test code goes on (a test whose
\* assertion raised is over, and the next one works on a trace of its own; the
\* trace here stands for either)
ExpectDone ==
    /\ verdict.called
    /\ verdict' = NoVerdict
    /\ UNCHANGED <<heap, handle, snaps, nmut, order, lastReg>>
    /\ UNCHANGED runnerVars
    /\ UNCHANGED icVars
    /\ UNCHANGED extVars

\* ================================================ registry.py, file by file
\* the files whose modules register tests and hooks
Files == {"a.ai_test.py", "b.ai_test.py"}
Keys == {"tests", "before_all_hooks", "after_all_hooks", "before_each_hooks",
         "after_each_hooks"}

\* mutant: clear_registry clears every file, whatever file_path is
clear_registry_All(R, file_path) == <<>>

\* clear_registry 97-102; file_path is Optional
clear_registry(R, file_path) ==
    IF file_path = Nothing THEN <<>>
    ELSE [g \in DOMAIN R \ {file_path[1]} |-> R[g]]

\* get_registry 105-108: the entry of the file (None when it has none), or the
\* whole registry when no file is given
get_registry(R, file_path) ==
    IF file_path # Nothing
    THEN IF file_path[1] \in DOMAIN R THEN Some(R[file_path[1]]) ELSE Nothing
    ELSE Some(R)

\* the number of functions registered
RECURSIVE RegSize(_)
RegSize(R) ==
    IF DOMAIN R = {} THEN 0
    ELSE LET f == CHOOSE g \in DOMAIN R : TRUE
             rest == [g \in DOMAIN R \ {f} |-> R[g]]
         IN  Len(R[f].tests) + Len(R[f].before_all_hooks) + Len(R[f].after_all_hooks)
             + Len(R[f].before_each_hooks) + Len(R[f].after_each_hooks) + RegSize(rest)

NoRegOp == [op |-> "", file |-> Nothing, got |-> Nothing]

\* ---- the operations of SpecRegistry
\* a decorator (ai_test, before_all, after_all, before_each, after_each) applied to
\* a function of file f
RegDecorate ==
    /\ RegSize(REGISTRY) < MaxReg
    /\ \E f \in Files, key \in Keys :
          /\ REGISTRY' = Register(REGISTRY, f, key, 1)
          /\ lastReg' = [op |-> "register", file |-> Some(f), got |-> Nothing]
    /\ UNCHANGED <<decl, pc, hook, test, status, err, result, traces, current, tasks,
                   nrec, log>>
    /\ UNCHANGED icVars
    /\ UNCHANGED <<heap, handle, snaps, nmut, order, verdict>>
    /\ UNCHANGED extVars

\* get_registry(file_path)
RegGet ==
    /\ \E fp \in {Nothing} \cup {Some(f) : f \in Files} :
          lastReg' = [op |-> "get", file |-> fp, got |-> get_registry(REGISTRY, fp)]
    /\ UNCHANGED runnerVars
    /\ UNCHANGED icVars
    /\ UNCHANGED <<heap, handle, snaps, nmut, order, verdict>>
    /\ UNCHANGED extVars

\* clear_registry(file_path)
RegClear ==
    /\ \E fp \in {Nothing} \cup {Some(f) : f \in Files} :
          /\ REGISTRY' = clear_registry(REGISTRY, fp)
          /\ lastReg' = [op |-> "clear", file |-> fp, got |-> Nothing]
    /\ UNCHANGED <<decl, pc, hook, test, status, err, result, traces, current, tasks,
                   nrec, log>>
    /\ UNCHANGED icVars
    /\ UNCHANGED <<heap, handle, snaps, nmut, order, verdict>>
    /\ UNCHANGED extVars

\* ============================================================ browser_ui.py
\* the connections a browser may open to /events
Conns == 1..MaxConns

\* a connection nobody has opened yet
NoConn == [pc |-> "idle", queue |-> <<>>, next |-> 0, out |-> <<>>]

\* BrowserUIServer.send 23-26: the event joins the history and the queue of every
\* connection whose queue is in the list
send(srv, event) ==
    [history |-> Append(srv.history, event),
     conn |-> [c \in Conns |->
                  IF c \in srv.queues THEN [srv.conn[c] EXCEPT !.queue = Append(@, event)]
                  ELSE srv.conn[c]]]

\* the server as one value
Server == [history |-> history, queues |-> queues, conn |-> conn]

\* ---- _sse_handler 28-55, from one suspension point to the next.  The handler
\* and the sender share one event loop: a send runs only while every handler is
\* suspended, in an await.
\* 29-40: the queue is created and listed, then the handler awaits prepare()
SseConnect ==
    /\ \E c \in Conns :
          /\ conn[c].pc = "idle"
          /\ queues' = queues \cup {c}
          /\ conn' = [conn EXCEPT ![c].pc = "prepare"]
    /\ UNCHANGED <<history, cli, batch, past>>
    /\ UNCHANGED runnerVars
    /\ UNCHANGED icVars
    /\ UNCHANGED libVars
    /\ UNCHANGED <<ctx, callLog, params, lastRec>>

\* 43-44: `for event in self.history: await response.write(...)`: the loop asks
\* the list, as it is now, for its next item, and awaits the write of it; with no
\* item left the handler goes on to wait for its queue
SseReplayStep(c) ==
    IF conn[c].next < Len(history)
    THEN [conn[c] EXCEPT !.pc = "replay", !.next = @ + 1,
                         !.out = Append(@, history[conn[c].next + 1])]
    ELSE [conn[c] EXCEPT !.pc = "stream"]

\* 40-44: prepare() or a write of the replay returns, and the replay goes on
SseReplay ==
    /\ \E c \in Conns :
          /\ conn[c].pc \in {"prepare", "replay"}
          /\ conn' = [conn EXCEPT ![c] = SseReplayStep(c)]
    /\ UNCHANGED <<history, queues, cli, batch, past>>
    /\ UNCHANGED runnerVars
    /\ UNCHANGED icVars
    /\ UNCHANGED libVars
    /\ UNCHANGED <<ctx, callLog, params, lastRec>>

\* 47-49: queue.get() returns an event, which is written
SseStream ==
    /\ \E c \in Conns :
          /\ conn[c].pc = "stream"
          /\ conn[c].queue # <<>>
          /\ conn' = [conn EXCEPT ![c].queue = Tail(@),
                                  ![c].out = Append(@, Head(conn[c].queue))]
    /\ UNCHANGED <<history, queues, cli, batch, past>>
    /\ UNCHANGED runnerVars
    /\ UNCHANGED icVars
    /\ UNCHANGED libVars
    /\ UNCHANGED <<ctx, callLog, params, lastRec>>

\* the browser goes away and the handler is cancelled: 50-54 take the queue off
\* the list when the handler was in its try block; before that the
\* CancelledError leaves the handler at once and the queue stays listed
SseCancel ==
    /\ \E c \in Conns :
          /\ conn[c].pc \in {"prepare", "replay", "stream"}
          /\ conn' = [conn EXCEPT ![c].pc = "closed"]
          /\ queues' = IF conn[c].pc = "stream" THEN queues \ {c} ELSE queues
    /\ UNCHANGED <<history, cli, batch, past>>
    /\ UNCHANGED runnerVars
    /\ UNCHANGED icVars
    /\ UNCHANGED libVars
    /\ UNCHANGED <<ctx, callLog, params, lastRec>>

\* the run sends its next event; in SpecStream an event is its number
UISend ==
    /\ Len(history) < MaxEvents
    /\ LET srv == send(Server, Len(history) + 1)
       IN  /\ history' = srv.history
           /\ conn' = srv.conn
    /\ UNCHANGED <<queues, cli, batch, past>>
    /\ UNCHANGED runnerVars
    /\ UNCHANGED icVars
    /\ UNCHANGED libVars
    /\ UNCHANGED <<ctx, callLog, params, lastRec>>

\* =================================================================== cli.py
\* _discover_files: the sorted list of the files found
CliFiles == <<"a.ai_test.py", "b.ai_test.py">>

Statuses == {"passed", "failed", "error"}

\* what `await run_file(file)` may give test_cmd: a FileResult with before_all_error
\* set and no tests, a FileResult with one TestResult per test run, with or
\* without after_all_error, or an error (_import_file 116-122, run_file 74-78)
RECURSIVE TestResults(_)
TestResults(n) ==
    IF n = 0 THEN {<<>>}
    ELSE {Append(ts, TestResult(n, st, IF st = "passed" THEN None ELSE "err", n)) :
              ts \in TestResults(n - 1), st \in Statuses}
RunFileReturns ==
    {[FileResult EXCEPT !.before_all_error = "err"]}
    \cup {[FileResult EXCEPT !.tests = ts, !.after_all_error = e] :
              ts \in UNION {TestResults(n) : n \in 0..MaxCliTests}, e \in {None, "err"}}

\* _summarize_results 75-94
RECURSIVE _summarize_results(_)
_summarize_results(file_results) ==
    IF file_results = <<>> THEN [total |-> 0, passed |-> 0, failed |-> 0, errored |-> 0]
    ELSE LET fr == file_results[Len(file_results)]
             s == _summarize_results(SubSeq(file_results, 1, Len(file_results) - 1))
             n(st) == Cardinality({i \in 1..Len(fr.tests) : fr.tests[i].status = st})
         IN  IF fr.before_all_error # None THEN [s EXCEPT !.errored = @ + 1]
             ELSE [total |-> s.total + Len(fr.tests),
                   passed |-> s.passed + n("passed"),
                   failed |-> s.failed + n("failed"),
                   errored |-> s.errored + (Len(fr.tests) - n("passed") - n("failed"))
                               + (IF fr.after_all_error # None THEN 1 ELSE 0)]

Event(type, payload) == [type |-> type, payload |-> payload]

\* test_cmd 136-148: one test-finish per test of the FileResult, in its order
RECURSIVE SendTests(_, _, _)
SendTests(srv, file, tests) ==
    IF tests = <<>> THEN srv
    ELSE LET t == Head(tests)
             s1 == send(srv, Event("test-finish",
                                   [file |-> file, name |-> t.name, status |-> t.status,
                                    error |-> t.error]))
         IN  SendTests([srv EXCEPT !.history = s1.history, !.conn = s1.conn], file,
                       Tail(tests))

NewCli == [pc |-> "start", server |-> FALSE, file |-> 0, results |-> <<>>, error |-> None]

\* test_cmd 119-129: with the UI enabled the server is started and run-start is
\* sent; an error in that leaves the run without a server
CliStart ==
    /\ cli.pc = "start"
    /\ \E browser_ui_enabled \in BOOLEAN, started \in BOOLEAN :
          IF browser_ui_enabled /\ started
          THEN LET srv == send(Server, Event("run-start", CliFiles))
               IN  /\ history' = srv.history
                   /\ conn' = srv.conn
                   /\ cli' = [cli EXCEPT !.pc = "files", !.server = TRUE, !.file = 1]
          ELSE /\ cli' = [cli EXCEPT !.pc = "files", !.server = FALSE, !.file = 1]
               /\ UNCHANGED <<history, conn>>
    /\ UNCHANGED <<queues, batch, past>>
    /\ UNCHANGED runnerVars
    /\ UNCHANGED icVars
    /\ UNCHANGED libVars
    /\ UNCHANGED <<ctx, callLog, params, lastRec>>

\* test_cmd 130-148: one turn of the loop over the files
CliFile ==
    /\ cli.pc = "files"
    /\ cli.file <= Len(CliFiles)
    /\ LET file == CliFiles[cli.file]
           s1 == IF cli.server THEN send(Server, Event("file-start", file))
                 ELSE [history |-> history, conn |-> conn]
           srv == [Server EXCEPT !.history = s1.history, !.conn = s1.conn]
       IN  \E raised \in BOOLEAN :
              IF raised
              THEN /\ cli' = [cli EXCEPT !.pc = "raised", !.error = "run_file"]
                   /\ history' = srv.history
                   /\ conn' = srv.conn
              ELSE \E file_result \in RunFileReturns :
                      LET s2 == IF cli.server THEN SendTests(srv, file, file_result.tests)
                                ELSE srv
                      IN  /\ cli' = [cli EXCEPT !.file = @ + 1,
                                                !.results = Append(@, file_result)]
                          /\ history' = s2.history
                          /\ conn' = s2.conn
    /\ UNCHANGED <<queues, batch, past>>
    /\ UNCHANGED runnerVars
    /\ UNCHANGED icVars
    /\ UNCHANGED libVars
    /\ UNCHANGED <<ctx, callLog, params, lastRec>>

\* test_cmd 149-154: after the loop.  With a server, run-summary is sent and
\* `await server.close()` awaits what close() returns, which is None: a TypeError
\* leaves _run before print_results.
CliSummary ==
    /\ cli.pc = "files"
    /\ cli.file > Len(CliFiles)
    /\ IF cli.server
       THEN LET srv == send(Server, Event("run-summary", _summarize_results(cli.results)))
            IN  /\ history' = srv.history
                /\ conn' = srv.conn
                /\ cli' = [cli EXCEPT !.pc = "raised", !.error = "TypeError"]
       ELSE /\ cli' = [cli EXCEPT !.pc = "printed"]
            /\ UNCHANGED <<history, conn>>
    /\ UNCHANGED <<queues, batch, past>>
    /\ UNCHANGED runnerVars
    /\ UNCHANGED icVars
    /\ UNCHANGED libVars
    /\ UNCHANGED <<ctx, callLog, params, lastRec>>

\* ===================================================== run_file, called again
\* the caller has its FileResult and calls run_file(file) once more in the same
\* process: a new call starts at line 45 with new locals, and registry._REGISTRY
\* is what the calls before left
RunAgain ==
    /\ pc = "returned"
    /\ Len(past) + 1 < MaxRuns
    /\ past' = Append(past, result)
    /\ SetRunner([Runner EXCEPT !.pc = "start", !.hook = 0, !.test = 0,
                                !.status = "passed", !.err = None,
                                !.result = FileResult, !.log = <<>>,
                                !.ctx = Nothing, !.calls = <<>>])
    /\ UNCHANGED <<decl, REGISTRY, tasks, nrec>>
    /\ UNCHANGED icVars
    /\ UNCHANGED libVars
    /\ UNCHANGED <<params, lastRec>>
    /\ UNCHANGED <<history, queues, conn, cli, batch>>

\* ============================================================ run_files
\* run_files 37-41: the locals before the loop
NewBatch == [pc |-> "files", file |-> 1, results |-> <<>>, error |-> None]

\* what `await run_file(file)` gives run_files: a FileResult, or the error that
\* leaves run_file (_import_file 116-122, the after-each hooks 74-78)
RunFileOutcomes ==
    {[raised |-> FALSE, error |-> None, result |-> r] : r \in RunFileReturns}
    \cup {[raised |-> TRUE, error |-> e, result |-> FileResult] :
              e \in {"ImportError", "RuntimeError"}}

\* run_files 39-40: one turn of the loop
BatchFile ==
    /\ batch.pc = "files"
    /\ batch.file <= Len(CliFiles)
    /\ \E o \in RunFileOutcomes :
          batch' = IF o.raised THEN [batch EXCEPT !.pc = "raised", !.error = o.error]
                   ELSE [batch EXCEPT !.file = @ + 1,
                                      !.results = Append(@, [file |-> CliFiles[batch.file],
                                                             result |-> o.result])]
    /\ UNCHANGED <<history, queues, conn, cli, past>>
    /\ UNCHANGED runnerVars
    /\ UNCHANGED icVars
    /\ UNCHANGED libVars
    /\ UNCHANGED <<ctx, callLog, params, lastRec>>

\* run_files 41: `return results`
BatchReturn ==
    /\ batch.pc = "files"
    /\ batch.file > Len(CliFiles)
    /\ batch' = [batch EXCEPT !.pc = "returned"]
    /\ UNCHANGED <<history, queues, conn, cli, past>>
    /\ UNCHANGED runnerVars
    /\ UNCHANGED icVars
    /\ UNCHANGED libVars
    /\ UNCHANGED <<ctx, callLog, params, lastRec>>

\* ------------------------------------------------------------- specification
\* the files that declare at most n functions
Decls(n) ==
    {d \in [tests : 0..n, before_all : 0..n, before_each : 0..n,
             after_each : 0..n, after_all : 0..n] :
        d.tests + d.before_all + d.before_each + d.after_each + d.after_all <= n}

InitRunner ==
    /\ REGISTRY = <<>>
    /\ pc = "start"
    /\ hook = 0
    /\ test = 0
    /\ status = "passed"
    /\ err = None
    /\ result = FileResult
    /\ traces = <<>>
    /\ current = NoTrace
    /\ tasks = {}
    /\ nrec = 0
    /\ log = <<>>
    /\ ctx = Nothing
    /\ callLog = <<>>

InitInterceptor ==
    /\ installed = FALSE
    /\ saved = [c \in Clients |-> None]
    /\ slot = [c \in Clients |-> "original"]
    /\ ops = 0
    /\ lastSend = NoSend

\* the functions a file that declares d registers
Fns(d) ==
    {<<"tests", i>> : i \in 1..d.tests}
    \cup {<<"before_all_hooks", i>> : i \in 1..d.before_all}
    \cup {<<"before_each_hooks", i>> : i \in 1..d.before_each}
    \cup {<<"after_each_hooks", i>> : i \in 1..d.after_each}
    \cup {<<"after_all_hooks", i>> : i \in 1..d.after_all}

\* start_browser_ui_server 68-84, before any request; test_cmd not yet started
InitUI ==
    /\ history = <<>>
    /\ queues = {}
    /\ conn = [c \in Conns |-> NoConn]
    /\ cli = NewCli
    /\ batch = NewBatch
    /\ past = <<>>

InitLib ==
    /\ InitUI
    /\ heap = NewHeap
    /\ handle = NewHandle
    /\ snaps = {}
    /\ nmut = 0
    /\ order = <<>>
    /\ verdict = NoVerdict
    /\ lastReg = NoRegOp
    /\ lastRec = NoRec

Init ==
    /\ InitLib
    /\ decl \in Decls(MaxDecl)
    /\ params \in SUBSET Fns(decl)
    /\ InitRunner
    /\ InitInterceptor
    /\ hasRequests = TRUE

\* run_file alone: user code only ends, with an outcome
Next ==
    \/ ImportFile
    \/ BeginFile
    \/ BeforeAllHook
    \/ BeforeEachHook
    \/ Body
    \/ AfterEachHook
    \/ AfterAllHook

Spec == Init /\ [][Next]_vars

InitTrace ==
    /\ InitLib
    /\ decl \in Decls(MaxTraceDecl)
    /\ params = {f \in Fns(decl) : f[1] \in {"tests", "before_each_hooks", "after_each_hooks"}}
    /\ InitRunner
    /\ InitInterceptor
    /\ hasRequests = TRUE

\* run_file with user code that records into traces and starts tasks
NextTrace ==
    \/ ImportFile
    \/ BeginFile
    \/ BeforeAllHook
    \/ BeforeEachHook
    \/ Body
    \/ AfterEachHook
    \/ AfterAllHook
    \/ SpawnTask
    \/ RecordAmbient
    \/ TaskRecordAmbient
    \/ RecordHeld

SpecTrace == InitTrace /\ [][NextTrace]_vars

\* the interceptor alone: no file is run; traces are activated and cleared as the
\* runner would
InitIC ==
    /\ InitLib
    /\ decl = [tests |-> 0, before_all |-> 0, before_each |-> 0, after_each |-> 0,
               after_all |-> 0]
    /\ params = {}
    /\ InitRunner
    /\ InitInterceptor
    /\ hasRequests \in BOOLEAN

NextIC ==
    \/ Install
    \/ Uninstall
    \/ Send
    \/ ActivateTrace
    \/ ClearTrace

SpecInterceptor == InitIC /\ [][NextIC]_vars

\* one TraceHandle, recorded into and read through its getters
InitHandle ==
    /\ InitIC
    /\ hasRequests = TRUE

NextHandle ==
    \/ HRecord
    \/ HGet
    \/ HMutate

SpecHandle == InitHandle /\ [][NextHandle]_vars

\* one TraceHandle, recorded into in every way the record methods can be called
NextRecord ==
    \/ RecordAs

SpecRecord == InitHandle /\ [][NextRecord]_vars

\* one TraceHandle, recorded into and asserted on
NextMatch ==
    \/ MRecord
    \/ ExpectCount
    \/ ExpectDone

SpecMatch == InitHandle /\ [][NextMatch]_vars

\* one TraceHandle, recorded into; positional and judge-scored assertions on it
NextJudge ==
    \/ MRecord
    \/ ExpectPrompt
    \/ ExpectSemantic
    \/ ExpectMetric
    \/ ExpectDone

SpecJudge == InitHandle /\ [][NextJudge]_vars

\* the registry alone: decorators, reads and clears for two files
NextRegistry ==
    \/ RegDecorate
    \/ RegGet
    \/ RegClear

SpecRegistry == InitHandle /\ [][NextRegistry]_vars

\* the event stream: connections come and go while events are sent
NextStream ==
    \/ SseConnect
    \/ SseReplay
    \/ SseStream
    \/ SseCancel
    \/ UISend

SpecStream == InitHandle /\ [][NextStream]_vars

\* one `test` run of the command line
NextCli ==
    \/ CliStart
    \/ CliFile
    \/ CliSummary

SpecCli == InitHandle /\ [][NextCli]_vars

\* asyncio.run(_run()) drives the coroutine of the command until it returns or
\* raises (cli.py 156, 203): a step of the command that can be taken is taken
SpecCliFair == SpecCli /\ WF_vars(NextCli)

\* assertions that call the judge, in a process where the interceptor is
\* installed and uninstalled
NextObserved ==
    \/ MRecord
    \/ Install
    \/ Uninstall
    \/ ExpectPrompt
    \/ ExpectObserved
    \/ ExpectDone

SpecObserved == InitHandle /\ [][NextObserved]_vars

\* run_file called repeatedly on one file whose functions declare no parameter
InitRepeat ==
    /\ InitLib
    /\ decl \in Decls(MaxRepeatDecl)
    /\ params = {}
    /\ InitRunner
    /\ InitInterceptor
    /\ hasRequests = TRUE

NextRepeat ==
    \/ ImportFile
    \/ BeginFile
    \/ BeforeAllHook
    \/ BeforeEachHook
    \/ Body
    \/ AfterEachHook
    \/ AfterAllHook
    \/ RunAgain

SpecRepeat == InitRepeat /\ [][NextRepeat]_vars

\* one call of run_files
NextFiles ==
    \/ BatchFile
    \/ BatchReturn

SpecFiles == InitHandle /\ [][NextFiles]_vars

\* ===================================================================== claims
\* how often the runner logged <<phase, t, h>>: h = 0 is the call of _run_hooks
\* for the phase, h >= 1 the call of its h-th hook (of the body, for "body")
Count(phase, t, h) == Cardinality({i \in 1..Len(log) : log[i] = <<phase, t, h>>})

Ended == pc \in {"returned", "raised"}

\* the file was loaded, registered something, and its before-all hooks all returned
BeforeAllSucceeded ==
    /\ TheFile \in DOMAIN REGISTRY
    /\ pc \notin {"start", "loaded", "before_all"}
    /\ result.before_all_error = None

\* C1: once run_file has ended for a file whose before-all succeeded, every test
\* of the file has had its after-each phase run exactly once, after its
\* before-each/body phase.
C1_AfterEachOncePerTest ==
    (Ended /\ BeforeAllSucceeded) =>
        \A t \in 1..Len(_tests_list(Reg)) :
            /\ Count("after_each", t, 0) = 1
            /\ \A i, j \in 1..Len(log) :
                   (log[i] = <<"after_each", t, 0>> /\ log[j][1] \in {"before_each", "body"}
                    /\ log[j][2] = t) => j < i

\* C2: once run_file has ended for a file whose before-all succeeded, it has
\* returned (no failure inside a test made it raise) and its FileResult holds one
\* TestResult per registered test, in registration order.
C2_OneResultPerTest ==
    (Ended /\ BeforeAllSucceeded) =>
        /\ pc = "returned"
        /\ Len(result.tests) = Len(_tests_list(Reg))
        /\ \A t \in 1..Len(result.tests) : result.tests[t].name = _tests_list(Reg)[t]

\* C3: in the runner's context the current trace is non-null only while a test's
\* before-each/body/after-each sequence is executing; it is null between tests'
\* results, and whenever run_file has ended, by returning or by raising.
C3_NoLeak ==
    /\ current # NoTrace => pc \in TestPhases
    /\ Ended => current = NoTrace

C3_Witness ==
    /\ pc = "returned"
    /\ current = NoTrace
    /\ Len(result.tests) >= 2
    /\ \E t \in 1..Len(result.tests) : result.tests[t].status # "passed"

\* C4: if a before-all hook raised, run_file has returned a FileResult with
\* before_all_error set and no tests, and no before-each hook, body, after-each
\* hook or after-all hook was run (nor a trace created).
C4_BeforeAllError ==
    result.before_all_error # None =>
        /\ pc = "returned"
        /\ result.tests = <<>>
        /\ traces = <<>>
        /\ \A i \in 1..Len(log) : log[i][1] = "before_all"

C4_Witness ==
    /\ result.before_all_error # None
    /\ decl.tests >= 1
    /\ decl.after_all >= 1
    /\ Count("before_all", 0, 2) = 1

InWindow(t) == current = t

\* trace b is trace a with entries appended
Grown(a, b) ==
    \A k \in Kinds : Len(b[k]) >= Len(a[k]) /\ SubSeq(b[k], 1, Len(a[k])) = a[k]

\* C6 as stated: a trace changes only inside its window; once its test has
\* finished, nothing any code does changes it.
C6_Original ==
    [][\A t \in 1..Len(traces) : traces'[t] # traces[t] => InWindow(t)]_vars

\* C6 amended: the sequences of a trace only grow; a step of the runner itself
\* changes no trace; and in the runner's context the current trace, when there is
\* one, is the trace of the test that is running, so that nothing reaches a
\* finished test's trace through get_current_trace() there.  (A finished trace can
\* still grow through a reference user code kept or through the context of a task
\* started during the test.)
C6_Amended ==
    /\ [](current # NoTrace => (pc \in TestPhases /\ current = Len(traces)))
    /\ [][\A t \in 1..Len(traces) :
             /\ traces'[t] = traces[t] \/ Grown(traces[t], traces'[t])
             /\ (pc' # pc \/ hook' # hook \/ test' # test) => traces'[t] = traces[t]]_vars

\* a finished test's trace holds an entry recorded after the test finished
C6_Witness ==
    \E t \in 1..Len(traces) : \E k \in Kinds : \E i \in 1..Len(traces[t][k]) :
        /\ traces[t][k][i].during # t
        /\ ~InWindow(t)

\* C7: the step in which an after-each error leaves run_file starts with the
\* test's trace current and ends with no current trace.
C7_DeactivatedBeforeRaise ==
    [][(pc = "after_each" /\ pc' = "raised") =>
           (current = Len(traces) /\ current' = NoTrace)]_vars

C7_Witness ==
    /\ pc = "raised"
    /\ current = NoTrace
    /\ \E t \in 1..Len(traces) : Count("after_each", t, 1) = 1

\* C8: whenever the interceptor is not installed every client's send is the
\* original one, in particular after install, install, uninstall, uninstall;
\* while it is installed every patched send is a wrapper around the original,
\* never around a wrapper, so a send is observed at most once; and an install()
\* on an installed interceptor, or an uninstall() on an uninstalled one, changes
\* nothing.
C8_Idempotent ==
    /\ [](~installed => \A c \in Clients : slot[c] = "original")
    /\ [](installed => \A c \in Clients : slot[c] = "wrapper" => saved[c] = "original")
    /\ [](lastSend.called => lastSend.observed <= 1)
    /\ [][/\ (Install /\ installed) => UNCHANGED <<installed, saved, slot>>
          /\ (Uninstall /\ ~installed) => UNCHANGED <<installed, saved, slot>>]_vars

\* after install, install, uninstall, uninstall a send goes to the original alone
C8_Witness ==
    /\ ops = Len(Scenario)
    /\ ~installed
    /\ lastSend.called
    /\ lastSend.observed = 0
    /\ lastSend.original = 1

\* C9: a send observed while a trace is active raises nothing from the observer
\* into the caller, whatever the body, and the underlying send is performed.
C9_FailuresSwallowed ==
    (lastSend.called /\ lastSend.wrapped /\ lastSend.active) =>
        /\ lastSend.result \in {"response", "ConnectError"}
        /\ lastSend.original = 1

\* C10: with the interceptor installed, a send calls the original send exactly
\* once and ends exactly as the original ended, with or without an active trace.
C10_Observational ==
    (lastSend.called /\ lastSend.wrapped) =>
        /\ lastSend.original = 1
        /\ lastSend.result = lastSend.origResult

\* C11: a send made through an installed wrapper while no trace is current in the
\* caller's context leaves every trace as it was, the traces of finished tests
\* included.
C11_NoTraceNoRecord ==
    [][(lastSend'.called /\ lastSend'.wrapped /\ ~lastSend'.active) =>
           traces' = traces]_vars

\* a wrapper observed a send after the only trace was deactivated
C11_Witness ==
    /\ lastSend.called
    /\ lastSend.wrapped
    /\ lastSend.observed = 1
    /\ ~lastSend.active
    /\ Len(traces) >= 1
    /\ lastSend.body = "json"

\* the entries of kind k recorded so far, in the order they were recorded
Recorded(k) ==
    LET sel == SelectSeq(order, LAMBDA o : o.kind = k)
    IN  [i \in 1..Len(sel) |-> sel[i].entry]

\* C12: at every moment, whatever user code did to the lists earlier getter calls
\* returned, each of get_llm_steps, get_tool_calls and get_custom_steps returns
\* exactly the entries recorded so far for its sequence, in recording order (so
\* none was removed, added or moved).
C12_Snapshots ==
    \A k \in Kinds : Items(Getter(k, heap, handle)) = Recorded(k)

\* user code holds a snapshot of two or more LLM steps that it has reversed
C12_Witness ==
    /\ nmut >= 1
    /\ Len(Recorded("llm")) >= 2
    /\ \E ref \in snaps :
          /\ heap[ref] = Reverse(Recorded("llm"))
          /\ heap[ref] # Recorded("llm")

\* C13: get_steps returns all LLM steps, then all tool calls, then all custom
\* steps, each group in its own recording order.
C13_GetSteps ==
    Items(get_steps(heap, handle)) =
        Recorded("llm") \o Recorded("tool") \o Recorded("custom")

\* recorded in the order custom, tool, LLM, so that get_steps is not the global
\* recording order
C13_Witness ==
    /\ Len(order) = 3
    /\ order[1].kind = "custom"
    /\ order[2].kind = "tool"
    /\ order[3].kind = "llm"
    /\ Items(get_steps(heap, handle)) # [i \in 1..Len(order) |-> order[i].entry]

\* the sequence a count assertion looks at, and its predicate
KindOf(matcher) ==
    CASE matcher = "to_have_llm_step" -> "llm"
      [] matcher = "to_call_tool" -> "tool"
      [] OTHER -> "custom"

Matches(c, entry) ==
    CASE c.matcher = "to_have_llm_step" -> MatchesLLM(c.args, entry)
      [] c.matcher = "to_call_tool" -> MatchesTool(c.args, entry)
      [] OTHER -> MatchesCustom(c.args, entry)

\* the number of entries recorded so far that match the predicates of call c
NMatch(c) ==
    LET es == Recorded(KindOf(c.matcher))
    IN  Cardinality({i \in 1..Len(es) : Matches(c, es[i])})

Unqualified(c) == c.times = Nothing /\ c.min_times = Nothing /\ c.max_times = Nothing

\* C14: to_have_llm_step, to_call_tool and to_have_custom_step on a trace, called
\* with none of times, min_times, max_times, pass when one or more recorded
\* entries of their sequence match the predicates and fail, with the
\* none-recorded failure, when none does.
C14_NoQualifier ==
    (verdict.called /\ verdict.call.subject = "TraceHandle" /\ Unqualified(verdict.call)) =>
        /\ verdict.out.ok <=> NMatch(verdict.call) >= 1
        /\ ~verdict.out.ok => verdict.out.msg = "Expected but none recorded"

\* an unqualified assertion passed with two matching entries
C14_Witness ==
    /\ verdict.called
    /\ verdict.call.subject = "TraceHandle"
    /\ Unqualified(verdict.call)
    /\ NGiven(verdict.call.args) >= 1
    /\ NMatch(verdict.call) = 2
    /\ verdict.out.ok

\* C15: with a qualifier given, a count assertion on a trace passes exactly when
\* every given qualifier holds of the number c of matching entries: times = N
\* when c = N (N = 0 included), min_times = m when c >= m, max_times = M when
\* c <= M.
C15_Qualifiers ==
    (verdict.called /\ verdict.call.subject = "TraceHandle" /\ ~Unqualified(verdict.call)) =>
        LET c == verdict.call
            n == NMatch(c)
        IN  verdict.out.ok <=>
                /\ c.times # Nothing => n = c.times[1]
                /\ c.min_times # Nothing => n >= c.min_times[1]
                /\ c.max_times # Nothing => n <= c.max_times[1]

\* times=0 passed on a trace that holds entries of the sequence, none matching
C15_Witness ==
    /\ verdict.called
    /\ verdict.call.subject = "TraceHandle"
    /\ verdict.call.times = Some(0)
    /\ verdict.call.min_times = Nothing
    /\ verdict.call.max_times = Some(MaxMatchSteps)
    /\ Len(Recorded(KindOf(verdict.call.matcher))) >= 1
    /\ NMatch(verdict.call) = 0
    /\ verdict.out.ok

\* the LLM steps recorded so far, and the index a positional call asks for
LLM == Recorded("llm")
EffIndex(c) == IF c.nth # Nothing THEN c.nth ELSE c.index
Positional(c) ==
    /\ c.matcher \in {"to_have_prompt_where", "to_evaluate_output_metric"}
    /\ EffIndex(c) # Nothing
OutOfRange == {"Prompt index out of range", "LLM step index out of range"}

\* C16 as stated: a positional assertion whose index is at or beyond the length of
\* the LLM-step sequence, the empty sequence included, fails with the explicit
\* out-of-range error.
C16_Original ==
    (verdict.called /\ Positional(verdict.call) /\ EffIndex(verdict.call)[1] >= Len(LLM)) =>
        /\ ~verdict.out.ok
        /\ verdict.out.msg \in OutOfRange

\* C16 amended: such an assertion never passes; to_have_prompt_where fails with
\* its out-of-range error; to_evaluate_output_metric fails with its out-of-range
\* error when the sequence is not empty, and with the no-LLM-steps error,
\* whatever the index, when the sequence is empty.
C16_Amended ==
    (verdict.called /\ Positional(verdict.call) /\ EffIndex(verdict.call)[1] >= Len(LLM)) =>
        /\ ~verdict.out.ok
        /\ verdict.out.error = "AssertionError"
        /\ verdict.out.msg =
               IF verdict.call.matcher = "to_have_prompt_where"
               THEN "Prompt index out of range"
               ELSE IF Len(LLM) = 0 THEN "No LLM steps recorded"
               ELSE "LLM step index out of range"

\* nth is the length of a sequence of two LLM steps, and no predicate is given
C16_Witness ==
    /\ verdict.called
    /\ verdict.call.matcher = "to_have_prompt_where"
    /\ NGiven(verdict.call.args) = 0
    /\ Len(LLM) = 2
    /\ verdict.call.nth = Some(2)
    /\ verdict.call.index = Some(0)
    /\ verdict.out.msg = "Prompt index out of range"

\* C17: to_have_prompt_where with nth = i passes exactly when i is a position of
\* the LLM-step sequence and the step recorded at that position satisfies the
\* predicates, wherever else a matching step may be.
C17_PositionNotPresence ==
    (verdict.called /\ verdict.call.matcher = "to_have_prompt_where"
     /\ verdict.call.nth # Nothing) =>
        LET i == verdict.call.nth[1]
        IN  verdict.out.ok <=>
                /\ 0 <= i
                /\ i < Len(LLM)
                /\ MatchesPrompt(verdict.call.args, LLM[i + 1])

\* prompts "step B" then "step A", filter "step A", nth = 0: the assertion fails
C17_Witness ==
    /\ verdict.called
    /\ verdict.call.matcher = "to_have_prompt_where"
    /\ Len(LLM) = 2
    /\ LLM[1].prompt = Some(StepB)
    /\ LLM[2].prompt = Some(StepA)
    /\ verdict.call.args.filter_contains = Some(StepA)
    /\ verdict.call.nth = Some(0)
    /\ ~verdict.out.ok
    /\ verdict.out.msg = "Prompt at requested index did not match filter"

\* the judge call of c fails: no credential, the exchange fails or is not a 2xx
\* response of the expected shape, or the reply holds no numeric score
JudgeFails(c) ==
    \/ ~HasKey(c.cred)
    \/ c.reply.kind # "content"
    \/ c.reply.content.t # "object"
    \/ c.reply.content.score.t \in {"absent", "null", "str"}

ScoreCompared ==
    {"Semantic match score too low", "Score below threshold", "Score above threshold",
     "Score not equal"}

\* the assertion of c gets as far as the judge call
ReachesJudge(c) ==
    /\ c.matcher \in {"to_match_semantic_output", "to_evaluate_output_metric"}
    /\ Len(LLM) >= 1
    /\ c.matcher = "to_evaluate_output_metric" =>
           (EffIndex(c) = Nothing \/ (0 <= EffIndex(c)[1] /\ EffIndex(c)[1] < Len(LLM)))

\* C18: when the judge call fails, to_match_semantic_output and
\* to_evaluate_output_metric fail, and not by comparing a score: no score is
\* returned and none is compared with a threshold.
C18_JudgeFailureHard ==
    (verdict.called /\ ReachesJudge(verdict.call) /\ JudgeFails(verdict.call)) =>
        /\ ~verdict.out.ok
        /\ verdict.out.msg \notin ScoreCompared

EntryOf(R, g) == IF g \in DOMAIN R THEN Some(R[g]) ELSE Nothing

\* C20: a step that registers a test or hook for a file, reads the entry of a
\* file or clears a file leaves the entry of every other file (its tests and its
\* four hook lists, or its absence) as it was.
C20_Isolated ==
    [][\A f \in Files :
          lastReg'.file = Some(f) =>
              \A g \in Files \ {f} : EntryOf(REGISTRY', g) = EntryOf(REGISTRY, g)]_vars

\* file a was cleared while file b holds a test and a hook
C20_Witness ==
    /\ lastReg.op = "clear"
    /\ lastReg.file = Some("a.ai_test.py")
    /\ "a.ai_test.py" \notin DOMAIN REGISTRY
    /\ "b.ai_test.py" \in DOMAIN REGISTRY
    /\ Len(REGISTRY["b.ai_test.py"].tests) = 1
    /\ Len(REGISTRY["b.ai_test.py"].before_each_hooks) = 1

\* the calls before the i-th that run_file made in the same phase of the same
\* test (of the file, for before-all and after-all)
EarlierCalls(i) ==
    {j \in 1..(i - 1) :
        callLog[j].phase = callLog[i].phase /\ callLog[j].test = callLog[i].test}

\* the turns of the loop over the tests begun before the i-th step of the log
EarlierTurns(i) == {j \in 1..(i - 1) : log[j][1] = "before_each" /\ log[j][3] = 0}

\* C21: the k-th turn of the loop over the tests is for the test registered
\* k-th, whose function is the body called in it; the k-th hook called in a phase
\* of one test (of the file, for before-all and after-all) is the hook
\* registered k-th in the list of that phase; the TestResults carry the names in
\* registration order.
C21_RegistrationOrder ==
    /\ \A i \in 1..Len(log) :
          (log[i][1] = "before_each" /\ log[i][3] = 0) =>
              log[i][2] = Cardinality(EarlierTurns(i)) + 1
    /\ \A i \in 1..Len(callLog) :
          /\ callLog[i].fn[1] = KeyOf(callLog[i].phase)
          /\ callLog[i].fn[2] = IF callLog[i].phase = "body" THEN callLog[i].test
                                ELSE Cardinality(EarlierCalls(i)) + 1
    /\ \A t \in 1..Len(result.tests) : result.tests[t].name = t

\* two tests and two before-each hooks ran: the second hook before the second test
C21_Witness ==
    /\ pc = "returned"
    /\ Len(result.tests) = 2
    /\ \E i, j \in 1..Len(callLog) :
          /\ i < j
          /\ callLog[i] = [phase |-> "before_each", test |-> 2, fn |-> <<"before_each_hooks", 2>>,
                           args |-> callLog[i].args]
          /\ callLog[j].phase = "body"
          /\ callLog[j].fn = <<"tests", 2>>

\* C22: once run_file has ended for a file whose before-all succeeded, it has
\* returned, and the after-all phase was run exactly once, after the after-each
\* phase of every test of the file; an error of an after-all hook is in
\* after_all_error; and no step of the after-all phase changes the TestResults.
C22_AfterAllOnce ==
    /\ []((Ended /\ BeforeAllSucceeded) =>
             /\ pc = "returned"
             /\ Count("after_all", 0, 0) = 1
             /\ \A t \in 1..Len(_tests_list(Reg)) :
                    \E i, j \in 1..Len(log) :
                        i < j /\ log[i] = <<"after_each", t, 0>> /\ log[j] = <<"after_all", 0, 0>>)
    /\ [][pc = "after_all" =>
             /\ result'.tests = result.tests
             /\ (pc' = "returned" /\ hook < Len(_hook_list(Reg, "after_all_hooks"))) =>
                    result'.after_all_error # None]_vars

\* ------------------------------------------------------------------ C23
\* the TraceHandle of test i: the one its TestResult refers to, or, while the test
\* has no TestResult yet, the one in the context the runner made for it
TraceOfTest(i) == IF i <= Len(result.tests) THEN result.tests[i].trace ELSE ctx[1].trace

C24_AmbientTrace ==
    pc \in TestPhases =>
        /\ ctx # Nothing
        /\ get_current_trace(current) # NoTrace
        /\ get_current_trace(current) = ctx[1].trace
        /\ ctx[1].trace = Len(traces)
        /\ Len(traces) = test
        /\ callLog # <<>>
        /\ Running.test = test
        /\ Running.args = <<ctx[1]>>
        /\ \A c \in tasks : get_current_trace(c.current) = TraceOfTest(c.test)

\* the second test's after-each hook is running, code it called has recorded
\* through get_current_trace() into the second test's trace, and a task started
\* during the first test is still around
C24_Witness ==
    /\ pc = "after_each"
    /\ test = 2
    /\ get_current_trace(current) = 2
    /\ \E k \in Kinds : traces[2][k] = <<[during |-> 2, via |-> 2]>>
    /\ \E c \in tasks : c.test = 1

\* ------------------------------------------------------------------ C25
\* C25 as stated: at every moment what a subscriber has been sent is the first
\* events of the run, each once and in send order, whenever it connected
C25_ExactlyOnceInOrder ==
    \A c \in Conns :
        /\ Len(conn[c].out) <= Len(history)
        /\ \A n \in 1..Len(conn[c].out) : conn[c].out[n] = history[n]

\* ------------------------------------------------------------------ C26
\* the events of the k-th file: file-start, then one test-finish per TestResult
\* of its FileResult, in result order
FileEvents(k) ==
    <<Event("file-start", CliFiles[k])>>
    \o [i \in 1..Len(cli.results[k].tests) |->
          Event("test-finish", [file |-> CliFiles[k],
                                name |-> cli.results[k].tests[i].name,
                                status |-> cli.results[k].tests[i].status,
                                error |-> cli.results[k].tests[i].error])]

RECURSIVE EventsOfFiles(_)
EventsOfFiles(k) == IF k = 0 THEN <<>> ELSE EventsOfFiles(k - 1) \o FileEvents(k)

\* C26 as stated: in a run whose live UI is up, the events sent so far are
\* run-start and the events of the files run so far, and when the run is over
\* every file has been run and one run-summary follows the last test-finish
C26_EventSequence ==
    cli.server =>
        IF cli.pc = "files"
        THEN history = <<Event("run-start", CliFiles)>> \o EventsOfFiles(Len(cli.results))
        ELSE /\ Len(cli.results) = Len(CliFiles)
             /\ history = <<Event("run-start", CliFiles)>>
                              \o EventsOfFiles(Len(CliFiles))
                              \o <<Event("run-summary", _summarize_results(cli.results))>>

\* ------------------------------------------------------------------ C27
\* where an entry of the log stands in before-all -> {per test: before-each ->
\* body -> after-each} -> after-all; n is the number of tests
Place(e, n) ==
    CASE e[1] = "before_all" -> <<0, 0, e[3]>>
      [] e[1] = "before_each" -> <<e[2], 1, e[3]>>
      [] e[1] = "body" -> <<e[2], 2, e[3]>>
      [] e[1] = "after_each" -> <<e[2], 3, e[3]>>
      [] OTHER -> <<n + 1, 0, e[3]>>

Before(p, q) ==
    \/ p[1] < q[1]
    \/ p[1] = q[1] /\ p[2] < q[2]
    \/ p[1] = q[1] /\ p[2] = q[2] /\ p[3] < q[3]

\* C27: the per-file state machine.  What the runner starts, it starts in the
\* order before-all, then per test before-each, body, after-each, then after-all,
\* one hook after the other; the function running is always the last one
\* started, so each has completed when the next starts; the before-each phase of
\* a test starts only after the after-each phase of the test before it (the
\* before-all phase, for the first), and after-all only after the after-each
\* phase of the last test.
C27_StateMachine ==
    /\ \A i, j \in 1..Len(log) :
          i < j => Before(Place(log[i], Len(_tests_list(Reg))),
                          Place(log[j], Len(_tests_list(Reg))))
    /\ pc \in UserPhases => log[Len(log)] = <<pc, test, hook>>
    /\ \A j \in 1..Len(log) :
          /\ (log[j][1] = "before_each" /\ log[j][3] = 0) =>
                \E i \in 1..j - 1 :
                    log[i] = IF log[j][2] = 1 THEN <<"before_all", 0, 0>>
                             ELSE <<"after_each", log[j][2] - 1, 0>>
          /\ (log[j][1] = "body") =>
                \E i \in 1..j - 1 : log[i] = <<"before_each", log[j][2], 0>>
          /\ (log[j][1] = "after_each" /\ log[j][3] = 0) =>
                \E i \in 1..j - 1 : log[i] = <<"before_each", log[j][2], 0>>
          /\ log[j] = <<"after_all", 0, 0>> =>
                \A t \in 1..Len(_tests_list(Reg)) :
                    \E i \in 1..j - 1 : log[i] = <<"after_each", t, 0>>

\* a file with two tests, an after-each hook and an after-all hook has been run
\* to the end: the second body ran after the first test's after-each hook, and
\* the after-all hook after the second test's
C27_Witness ==
    /\ pc = "returned"
    /\ Len(result.tests) = 2
    /\ \E i, j, k, l \in 1..Len(log) :
          /\ i < j /\ j < k /\ k < l
          /\ log[i] = <<"after_each", 1, 1>>
          /\ log[j] = <<"body", 2, 1>>
          /\ log[k] = <<"after_each", 2, 1>>
          /\ log[l] = <<"after_all", 0, 1>>

\* ------------------------------------------------------------------ C28
\* C28 as stated: a send through a wrapped client while a trace is current
\* appends exactly one LLMStep to that trace, changes no other trace, and is then
\* forwarded; a send through a client that is not wrapped changes no trace
C28_OneStepPerSend ==
    [][lastSend'.called =>
          IF lastSend'.wrapped /\ lastSend'.active
          THEN /\ Len(traces'[current].llm) = Len(traces[current].llm) + 1
               /\ SubSeq(traces'[current].llm, 1, Len(traces[current].llm))
                     = traces[current].llm
               /\ traces'[current].tool = traces[current].tool
               /\ traces'[current].custom = traces[current].custom
               /\ \A t \in 1..Len(traces) : t # current => traces'[t] = traces[t]
               /\ lastSend'.original = 1
          ELSE traces' = traces]_vars

\* ------------------------------------------------------------------ C29
\* C29: each record_* call appends one entry.  A call that returns leaves its own
\* sequence one longer, the earlier entries where they were and the new entry at
\* the end, and leaves the two other sequences as they were; the new entry is the
\* entry value passed, or, when none is passed, has the named fields as given
\* and every other field at its default.  The only calls that do not return are
\* those that pass no entry value and do not name the field without a default:
\* they raise TypeError and leave all three sequences as they were.
C29_AppendsOne ==
    [][lastRec'.called =>
          LET old == View(heap, handle)
              new == View(heap', handle')
              k == lastRec'.kind
              kw == lastRec'.kwargs
          IN  IF lastRec'.error = ""
              THEN /\ Len(new[k]) = Len(old[k]) + 1
                   /\ SubSeq(new[k], 1, Len(old[k])) = old[k]
                   /\ \A j \in Kinds \ {k} : new[j] = old[j]
                   /\ LET e == new[k][Len(new[k])]
                      IN  IF lastRec'.step # Nothing THEN e = lastRec'.step[1]
                          ELSE \A f \in DOMAIN e :
                                  e[f] = IF f \in kw.names THEN kw.values[f]
                                         ELSE Default(k, f)
              ELSE /\ new = old
                   /\ lastRec'.error = "TypeError"
                   /\ lastRec'.step = Nothing
                   /\ ~(Required(k) \subseteq kw.names)]_vars

\* a custom step was just recorded by naming its fields, after entries of the
\* two other kinds: it is the only custom step, and the others are still there
C29_Witness ==
    /\ lastRec.called
    /\ lastRec.error = ""
    /\ lastRec.kind = "custom"
    /\ lastRec.step = Nothing
    /\ lastRec.kwargs.names = {"kind", "name", "tags", "payload"}
    /\ Len(View(heap, handle).custom) = 1
    /\ Len(View(heap, handle).llm) = 1
    /\ Len(View(heap, handle).tool) = 1

\* ------------------------------------------------------------------ C30
\* C30 as stated: every hook or body the runner has called was called with the
\* TestContext of the running test when it declares a positional parameter, and
\* with no argument when it declares none, in all five phases
C30_ContextPassed ==
    \A i \in 1..Len(callLog) :
        IF callLog[i].fn \in params
        THEN /\ Len(callLog[i].args) = 1
             /\ callLog[i].phase \in TestPhases =>
                    callLog[i].args[1] = AITestContext(TraceOfTest(callLog[i].test))
        ELSE callLog[i].args = <<>>

\* ------------------------------------------------------------------ C31
\* C31 as stated: after a send the interceptor observed with a trace current and
\* a JSON object as body, the LLM step recorded last in the current trace has as
\* prompt the contents of the messages whose role is "user", in message order,
\* joined by a blank line, and None exactly when the payload has no message list
C31_UserPrompt ==
    (lastSend.called /\ lastSend.wrapped /\ lastSend.active
        /\ lastSend.sent[1].kind = "json" /\ lastSend.sent[1].value.obj) =>
        LET ms == lastSend.sent[1].value.messages
            steps == traces[current].llm
        IN  /\ Len(steps) >= 1
            /\ steps[Len(steps)].prompt =
                  IF ms.t = "list" THEN Some(Join(Values(UserContents(ms.v))))
                  ELSE Nothing

\* ------------------------------------------------------------------ C32
\* the position a semantic assertion was given: to_match_semantic_output takes none
Position(c) == IF c.matcher = "to_evaluate_output_metric" THEN EffIndex(c) ELSE Nothing

\* C32: which completion a semantic assertion evaluates.  With no LLM step
\* recorded the assertion fails and the judge is not asked.  Otherwise, with a
\* credential, the judge is asked about the completion (the empty text when the
\* step has none) of the LLM step recorded last when no position is given, and
\* of the step at position nth (index, when nth is not given) when that is a
\* position of the sequence; a position outside the sequence fails the assertion
\* and the judge is not asked.
C32_WhichCompletion ==
    (verdict.called /\ verdict.call.matcher \in {"to_match_semantic_output",
                                                  "to_evaluate_output_metric"}) =>
        LET p == Position(verdict.call)
        IN  IF Len(LLM) = 0
            THEN /\ ~verdict.out.ok
                 /\ verdict.out.msg = "No LLM steps recorded"
                 /\ verdict.asked = Nothing
            ELSE IF p = Nothing
            THEN verdict.asked = IF HasKey(verdict.call.cred)
                                 THEN Some(OrEmpty(LLM[Len(LLM)].completion))
                                 ELSE Nothing
            ELSE IF 0 <= p[1] /\ p[1] < Len(LLM)
            THEN verdict.asked = IF HasKey(verdict.call.cred)
                                 THEN Some(OrEmpty(LLM[p[1] + 1].completion))
                                 ELSE Nothing
            ELSE /\ ~verdict.out.ok
                 /\ verdict.asked = Nothing

\* two LLM steps with different completions, no position given: the judge was
\* asked about the completion of the second step
C32_Witness ==
    /\ verdict.called
    /\ verdict.call.matcher = "to_match_semantic_output"
    /\ Len(LLM) = 2
    /\ LLM[1].completion = Some(DoneA)
    /\ LLM[2].completion = Some(Hello)
    /\ verdict.asked = Some(Hello)
    /\ verdict.out.ok

\* ------------------------------------------------------------------ C33
\* C33 as stated: run_files takes the files in input order, one after the other,
\* and when it is over it has returned one FileResult per input file, in that
\* order, whatever happened in the files before
C33_OnePerFile ==
    /\ Len(batch.results) <= Len(CliFiles)
    /\ \A k \in 1..Len(batch.results) : batch.results[k].file = CliFiles[k]
    /\ batch.pc = "files" => batch.file = Len(batch.results) + 1
    /\ batch.pc # "files" =>
          /\ batch.pc = "returned"
          /\ Len(batch.results) = Len(CliFiles)

\* ------------------------------------------------------------------ C34
\* C34 as stated: a step in which an assertion is evaluated leaves the three
\* sequences of the trace it inspects as they were, whether the interceptor is
\* installed or not and whether the trace is the current one or not
C34_AssertionsReadOnly ==
    [][(~verdict.called /\ verdict'.called) =>
          View(heap', handle') = View(heap, handle)]_vars

\* ------------------------------------------------------------------ C35
\* the names of the TestResults of a FileResult, in result order
Names(fr) == [t \in 1..Len(fr.tests) |-> fr.tests[t].name]

\* C35 as stated: a later run_file call on the same file that gets past the
\* before-all hooks, as the first call did, returns as many TestResults as the
\* first call, with the same names in the same order
C35_Repeatable ==
    (/\ pc = "returned"
     /\ past # <<>>
     /\ result.before_all_error = None
     /\ past[1].before_all_error = None) =>
        Names(result) = Names(past[1])

\* ------------------------------------------------------------------ C36
\* the error and the status the running test carries: in the locals of the loop
\* body while its after-each hooks run, in its TestResult once it has one
TestError(r, t, p, e) == IF p = "after_each" THEN e ELSE r.tests[t].error
TestStatus(r, t, p, s) == IF p = "after_each" THEN s ELSE r.tests[t].status

\* C36: a before-each hook raises.  In a step that ends a before-each hook and
\* leaves the test with an error (the hook raised: no body runs in that step),
\* the next thing the runner does is run the after-each hooks of that test, its
\* first after-each hook being called when it has one; no further before-each
\* hook and no body of that test is called; and the status is "failed" for an
\* AssertionError and "error" for any other error.  A test that has finished
\* without its body being called has a status other than "passed".
C36_BeforeEachRaises ==
    /\ [][(/\ pc = "before_each"
           /\ (pc' = "after_each" /\ test' = test) \/ Len(result'.tests) >= test
           /\ TestError(result', test, pc', err') # None) =>
              /\ Len(log') > Len(log)
              /\ log'[Len(log) + 1] = <<"after_each", test, 0>>
              /\ \A n \in Len(log) + 1..Len(log') :
                    ~(log'[n][2] = test /\ log'[n][1] \in {"before_each", "body"})
              /\ Len(_hook_list(Reg, "after_each_hooks")) > 0 =>
                    /\ pc' = "after_each"
                    /\ log'[Len(log) + 2] = <<"after_each", test, 1>>
              /\ TestStatus(result', test, pc', status') =
                    IF TestError(result', test, pc', err') = "AssertionError"
                    THEN "failed" ELSE "error"]_vars
    /\ [](\A t \in 1..Len(result.tests) :
             (\A n \in 1..Len(log) : log[n] # <<"body", t, 1>>) =>
                 /\ result.tests[t].status \in {"failed", "error"}
                 /\ result.tests[t].error # None
                 /\ \E n \in 1..Len(log) : log[n] = <<"after_each", t, 0>>)

\* the first of two before-each hooks raised an AssertionError in the first
\* test: the second hook and the body were not called, the after-each hook was,
\* and the test failed
C36_Witness ==
    /\ Len(result.tests) >= 1
    /\ result.tests[1].status = "failed"
    /\ Len(_hook_list(Reg, "before_each_hooks")) = 2
    /\ \E n \in 1..Len(log) : log[n] = <<"after_each", 1, 1>>
    /\ \A n \in 1..Len(log) :
          log[n] # <<"before_each", 1, 2>> /\ log[n] # <<"body", 1, 1>>

\* ------------------------------------------------------------------ C37
\* C37: every TestResult is consistent.  Its status is "passed" exactly when it
\* has no error and "failed" exactly when its error is an AssertionError (and so
\* "error" for every other error); the step that appends a TestResult gives it
\* the trace that is current in the runner when the test ends, and every task
\* started while a finished test ran saw that TestResult's trace as the current
\* one.
C37_ConsistentResult ==
    /\ [](\A t \in 1..Len(result.tests) :
             /\ result.tests[t].status = "passed" <=> result.tests[t].error = None
             /\ result.tests[t].status = "failed" <=>
                    result.tests[t].error = "AssertionError"
             /\ result.tests[t].status \in {"passed", "failed", "error"}
             /\ \A c \in tasks :
                    c.test = t => get_current_trace(c.current) = result.tests[t].trace)
    /\ [][Len(result'.tests) > Len(result.tests) =>
             /\ Len(result'.tests) = Len(result.tests) + 1
             /\ get_current_trace(current) # NoTrace
             /\ result'.tests[Len(result'.tests)].trace = get_current_trace(current)
             /\ result'.tests[Len(result'.tests)].trace = ctx[1].trace]_vars

\* two tests have finished, the first failed with an AssertionError and the
\* second passed, a task was started during each, and the two results hold
\* different traces
C37_Witness ==
    /\ Len(result.tests) >= 2
    /\ result.tests[1].status = "failed"
    /\ result.tests[1].error = "AssertionError"
    /\ result.tests[2].status = "passed"
    /\ result.tests[1].trace # result.tests[2].trace
    /\ \E c \in tasks : c.test = 1
    /\ \E c \in tasks : c.test = 2

\* ------------------------------------------------------------------ C38
\* the number of TestResults over a list of FileResults
RECURSIVE CountTests(_)
CountTests(file_results) ==
    IF file_results = <<>> THEN 0
    ELSE Len(file_results[Len(file_results)].tests)
         + CountTests(SubSeq(file_results, 1, Len(file_results) - 1))

\* C38: in the summary of the FileResults the command has collected, total is
\* the number of TestResults over all files and passed + failed + errored is
\* total.
C38_SummaryAddsUp ==
    LET s == _summarize_results(cli.results)
    IN  /\ s.total = CountTests(cli.results)
        /\ s.passed + s.failed + s.errored = s.total

\* ------------------------------------------------------------------ C39
\* C39: a command that has run all its files eventually prints the console
\* results, with the live UI server or without it.
C39_EventuallyPrinted ==
    (cli.pc = "files" /\ cli.file > Len(CliFiles)) ~> (cli.pc = "printed")

=============================================================================
